---- MODULE Spec2Model ----
(***************************************************************************)
(* Model of opencode-quota's Google Antigravity credential cache           *)
(* (google-token-cache: makeAccountCacheKey, loadFromDisk, ensureLoaded,   *)
(* persist, getCachedAccessToken, setCachedAccessToken,                    *)
(* clearGoogleTokenCache) and of the multi-account orchestrator in         *)
(* lib/google.ts (mapWithConcurrency, refreshAccessToken,                  *)
(* refreshAccessTokenWithCache, fetchAccountQuotaWithAntigravityRefresh,   *)
(* queryGoogleQuota, refreshGoogleTokensForAllAccounts).                   *)
(*                                                                         *)
(* Execution model: one JavaScript event loop.  Code between two awaits    *)
(* runs atomically; every await is a suspension point.  An action is the   *)
(* synchronous stretch of code that runs when a promise settles.           *)
(* Strings whose content is inspected by the code (emails, error           *)
(* messages, cache keys) are sequences of text fragments.                  *)
(***************************************************************************)
EXTENDS Integers, Sequences, FiniteSets, TLC

\* ------------------------------------------------------------------ bounds
MaxCallers == 2        \* concurrent callers of the cache API in SpecCache
MaxCalls == 3          \* calls of the cache API they make in total
MaxTicks == 1          \* how often the clock advances
MaxRecords == 3
MaxAccounts == 2       \* accounts in antigravity-accounts.json

\* ------------------------------------------------------- program constants
CACHE_VERSION == 1
GOOGLE_ACCOUNTS_CONCURRENCY == 3
DEFAULT_SKEW_MS == 2 * 60000
TickMs == 60 * 1000     \* granularity of the modelled clock
Now0 == 10 * TickMs     \* Date.now() when the process starts

Undefined == <<"\\undefined">>   \* an absent optional string
Null == 0              \* memCache = null / no object
Pending == -1          \* a caller awaiting the in-flight loadPromise

VARIABLES
  mode,            \* which entry point drives the run: "cache" | "query" | "refreshAll"
  now,             \* Date.now()
  memCache,        \* module variable memCache: Null or the id of a cache object
  loadPromise,     \* module variable loadPromise is non-null
  objs,            \* heap of GoogleAccessTokenCacheFile objects, by id
  file,            \* content of google-access-tokens.json
  reads,           \* number of readFile calls on the cache file
  writesInFlight,  \* writeFile calls issued and not yet settled: proc -> content
  proc,            \* per async caller: its position and locals
  clearsCalled,    \* history: clearGoogleTokenCache calls that have reset memCache
  clearsReturned,  \* history: clearGoogleTokenCache calls that have returned
  overlap,         \* history: some cache call started while another was in progress
  calls,           \* cache API calls made so far (SpecCache)
  lastSet,         \* history: per key, the entry most recently stored (persisted or set)
  accounts,        \* what readAntigravityAccounts returned: a list of roster rows
  concurrency,     \* mapWithConcurrency's params.concurrency
  force,           \* refreshGoogleTokensForAllAccounts' params.force
  nextIndex,       \* mapWithConcurrency's nextIndex (1-based here)
  results,         \* mapWithConcurrency's results array
  final,           \* what the entry point's promise settled to
  log,             \* history: per account, the cache and network events of its task
  messages,        \* aggregateUsage: the assistant messages the storage reader returned
  catalog,         \* the pricing catalog lookupCost answers from
  run,             \* aggregateUsage: which call is in progress (0: none yet)
  msgIndex,        \* aggregateUsage: position of the for loop in messages
  byModel,         \* aggregateUsage: Map byModel, rows in insertion order
  bySession,       \* aggregateUsage: Map bySession
  bySourceProvider,\* aggregateUsage: Map bySourceProvider
  bySourceModel,   \* aggregateUsage: Map bySourceModel
  unknown,         \* aggregateUsage: Map unknown
  totals,          \* aggregateUsage: pricedTotals, unknownTotals, costTotal
  result,          \* what the aggregateUsage call in progress returned, <<>> before
  firstResult,     \* history: what the first aggregateUsage call returned
  storage,         \* the message storage: session directories and message files
  command,         \* the token report being served: its kind and its arguments
  request,         \* aggregateUsage's params: sinceMs, untilMs, sessionID
  thrown,          \* the error the report's aggregateUsage call failed with, <<>> if none
  quotaCache,      \* globalThis.__opencodeQuotaCommandCache: message, timestamp, inFlight
  invocations,     \* the /quota invocations made so far: position, message, times
  fetches          \* history: the provider fetches made so far: start, end, message

cacheVars == <<memCache, loadPromise, objs, file, reads, writesInFlight>>
histVars == <<clearsCalled, clearsReturned, overlap, calls>>
orchVars == <<accounts, concurrency, force, nextIndex, results, final, log>>
mapVars == <<byModel, bySession, bySourceProvider, bySourceModel, unknown>>
reportVars == <<storage, command, request, thrown>>
quotaVars == <<quotaCache, invocations, fetches>>
statVars == <<messages, catalog, run, msgIndex, byModel, bySession, bySourceProvider,
              bySourceModel, unknown, totals, result, firstResult, reportVars, quotaVars>>
vars == <<mode, now, memCache, loadPromise, objs, file, reads, writesInFlight,
          proc, clearsCalled, clearsReturned, overlap, calls, lastSet,
          accounts, concurrency, force, nextIndex, results, final, log,
          messages, catalog, run, msgIndex, byModel, bySession, bySourceProvider,
          bySourceModel, unknown, totals, result, firstResult,
          storage, command, request, thrown, quotaCache, invocations, fetches>>

\* ------------------------------------------------------------ text helpers
Max_Second(a, b) == b
Max(a, b) == IF a > b THEN a ELSE b
Min(a, b) == IF a < b THEN a ELSE b

\* String.prototype.includes, on fragment sequences
Includes(msg, needle) == \E i \in 1..Len(msg) : msg[i] = needle

LowerChar(c) ==
  CASE c = "A" -> "a" [] c = "B" -> "b" [] c = "U" -> "u"
    [] c = "Claude" -> "claude" [] c = "-Opus" -> "-opus"
    [] c = "-Thinking" -> "-thinking" [] c = "Antigravity-" -> "antigravity-"
    [] OTHER -> c

ToLowerCase(s) == [i \in 1..Len(s) |-> LowerChar(s[i])]

RECURSIVE TrimStart(_)
TrimStart(s) == IF s # <<>> /\ Head(s) = " " THEN TrimStart(Tail(s)) ELSE s

RECURSIVE TrimEnd(_)
TrimEnd(s) ==
  IF s # <<>> /\ s[Len(s)] = " " THEN TrimEnd(SubSeq(s, 1, Len(s) - 1)) ELSE s

Trim(s) == TrimEnd(TrimStart(s))

\* ---------------------------------------------------------------- accounts
\* The roster antigravity-accounts.json may hold; account i is the i-th row.
RefreshTokens == <<"rt1", "rt2", "rt3", "rt4", "rt5">>
ProjectIds == <<"proj-a", "proj-b", "proj-a", "proj-b", "proj-a">>
Emails == << <<" ", "A", "@", "x">>, Undefined, <<"b", "@", "x">>,
             <<"a", "@", "x">>, Undefined >>

\* AntigravityAccount rows: the project id sits in any of three fields, or in
\* none ("" is an absent field)
Account(i) ==
  [email |-> Emails[i],
   refreshToken |-> RefreshTokens[i],
   projectId |-> IF i \in {1, 5} THEN ProjectIds[i] ELSE "",
   projectID |-> IF i = 4 THEN ProjectIds[i] ELSE "",
   managedProjectId |-> IF i = 2 THEN ProjectIds[i] ELSE ""]

getProjectId(account) ==
  IF account.projectId # "" THEN account.projectId
  ELSE IF account.projectID # "" THEN account.projectID
  ELSE account.managedProjectId

Unknown == <<"U", "nknown">>

\* access tokens the token endpoint hands out: row = account, column = issue
AccessTokens == << <<"at1.1", "at1.2", "at1.3", "at1.4">>,
                   <<"at2.1", "at2.2", "at2.3", "at2.4">>,
                   <<"at3.1", "at3.2", "at3.3", "at3.4">>,
                   <<"at4.1", "at4.2", "at4.3", "at4.4">>,
                   <<"at5.1", "at5.2", "at5.3", "at5.4">> >>

\* digest("hex").slice(0, 16) of sha256(refreshToken "\n" projectId): an opaque
\* value determined by its two inputs
DigestTable == << <<"d1a", "d1b">>, <<"d2a", "d2b">>, <<"d3a", "d3b">>,
                  <<"d4a", "d4b">>, <<"d5a", "d5b">> >>

RtIndex(rt) == CHOOSE i \in 1..Len(RefreshTokens) : RefreshTokens[i] = rt

Sha256Hex16_Plain(refreshToken, projectId) == refreshToken
Sha256Hex16(refreshToken, projectId) ==
  DigestTable[RtIndex(refreshToken)][IF projectId = "proj-a" THEN 1 ELSE 2]

makeAccountCacheKey(refreshToken, projectId, email) ==
  LET emailPart == ToLowerCase(Trim(IF email = Undefined THEN <<>> ELSE email))
      hash == Sha256Hex16(refreshToken, projectId)
  IN  emailPart \o <<"::", projectId, "::", hash>>

\* -------------------------------------------------------------- cache file
EmptyTokens == [k \in {} |-> 0]

Put_Alone(m, k, v) == [x \in {k} |-> v]
Put(m, k, v) == [x \in DOMAIN m \cup {k} |-> IF x = k THEN v ELSE m[x]]

\* { version: CACHE_VERSION, updatedAt: Date.now(), tokens: {} }
\* updatedAt is stamped on every mutation and never read back by the program;
\* the model leaves the stamp out.
\* (epoch is history: for each key, clearsCalled when its entry was put)
NewCacheFile == [tokens |-> EmptyTokens, epoch |-> EmptyTokens]

\* JSON.stringify(memCache, null, 2): the document written to disk
Stringify(obj) ==
  [kind |-> "json", isObject |-> TRUE, version |-> CACHE_VERSION,
   tokensIsObject |-> TRUE, tokens |-> obj.tokens]

Missing == [kind |-> "ENOENT"]
Garbage == [kind |-> "garbage"]

\* loadFromDisk: readFile + JSON.parse + shape checks; every failure is caught
\* and yields an empty cache
loadFromDisk_AnyVersion(f) ==
  IF f.kind = "json" /\ f.isObject /\ f.tokensIsObject
  THEN [tokens |-> f.tokens, epoch |-> [k \in DOMAIN f.tokens |-> 0]]
  ELSE NewCacheFile
loadFromDisk(f) ==
  IF /\ f.kind = "json"
     /\ f.isObject
     /\ f.version = CACHE_VERSION
     /\ f.tokensIsObject
  THEN [tokens |-> f.tokens, epoch |-> [k \in DOMAIN f.tokens |-> 0]]
  ELSE NewCacheFile

\* ------------------------------------------------------------------- clock
\* Date.now() is read: the clock may have advanced since it was last read
Clock == {now + d * TickMs : d \in 0..MaxTicks} \cap (0..(Now0 + MaxTicks * TickMs))

\* ----------------------------------------------------------- async callers
NoEntry == [accessToken |-> "", expiresAt |-> 0, projectId |-> "", email |-> Undefined]

\* at: the function the caller is in; cpc: the await it is suspended at inside
\* the cache module; op .. seen: the last cache call it made and what came back
IdleProc ==
  [at |-> "idle", cpc |-> "none", ref |-> Null, op |-> "none", key |-> <<>>,
   entry |-> NoEntry, skew |-> 0, hit |-> <<>>, outcome |-> "none", cr |-> 0,
   ep |-> 0, want |-> <<>>, called |-> FALSE, idx |-> 0, tok |-> ""]

\* mapWithConcurrency starts its workers in one synchronous stretch: nothing
\* else runs until each of them has reached its first await
Launched == mode = "cache" \/ (proc # <<>> /\ \A q \in DOMAIN proc : proc[q].called)

Busy(p) == proc[p].at # "idle"

\* a caller of the exported cache functions may call now: it awaits each call,
\* and callers are numbered in the order of their first call
MayCall(p) ==
  /\ mode = "cache"
  /\ proc[p].at = "idle"
  /\ calls < MaxCalls
  /\ p > 1 => proc[p - 1].called

\* ensureLoaded, synchronous part: what the caller will be handed, and whether
\* this call issues the readFile
EnsureRef == IF memCache # Null THEN memCache ELSE Pending
\* ensureLoaded without the `if (loadPromise) return loadPromise` line
EnsureStartsLoad_NoSingleFlight == memCache = Null

EnsureStartsLoad == memCache = Null /\ ~loadPromise

CallEnsureLoaded ==
  /\ loadPromise' = (loadPromise \/ EnsureStartsLoad)
  /\ reads' = reads + (IF EnsureStartsLoad THEN 1 ELSE 0)

\* the in-flight load settles: memCache = file; loadPromise = null; every
\* awaiter of loadPromise is handed the loaded object
LoadSettles ==
  /\ loadPromise
  /\ Launched
  /\ LET id == Len(objs) + 1 IN
       /\ objs' = Append(objs, loadFromDisk(file))
       /\ memCache' = id
       /\ proc' = [q \in DOMAIN proc |->
                     IF proc[q].ref = Pending THEN [proc[q] EXCEPT !.ref = id]
                     ELSE proc[q]]
  /\ loadPromise' = FALSE
  /\ UNCHANGED <<statVars, mode, now, file, reads, writesInFlight, histVars, lastSet, orchVars>>

\* getCachedAccessToken with the skew margin left out of the comparison
LookUp_IgnoresExpiry(cache, key, skewMs, t) ==
  IF key \in DOMAIN cache.tokens THEN <<cache.tokens[key]>> ELSE <<>>
LookUp_NoSkew(cache, key, skewMs, t) ==
  IF key \notin DOMAIN cache.tokens THEN <<>>
  ELSE IF cache.tokens[key].expiresAt \notin Int THEN <<>>
  ELSE IF cache.tokens[key].expiresAt <= t THEN <<>>
  ELSE <<cache.tokens[key]>>

\* getCachedAccessToken after `await ensureLoaded()`
LookUp(cache, key, skewMs, t) ==
  IF key \notin DOMAIN cache.tokens THEN <<>>
  ELSE IF cache.tokens[key].expiresAt \notin Int THEN <<>>
  ELSE IF cache.tokens[key].expiresAt <= t + skewMs THEN <<>>
  ELSE <<cache.tokens[key]>>

\* history: what the entry most recently stored under key lets a get return now
Expected(key, skewMs, t) ==
  IF key \in DOMAIN lastSet /\ lastSet[key].expiresAt > t + skewMs
  THEN <<lastSet[key]>> ELSE <<>>

\* ------------------------------------------------------------ orchestrator
\* Error messages, as fragments chosen so that the substrings the code looks
\* for ("timeout", "auth error") are fragments
TimeoutMessage(seconds) == <<"Request ", "timeout", " after ", seconds, "s">>
NetworkMessage == <<"fetch failed">>
FsMessage == <<"EACCES: permission denied">>

\* What the token endpoint can answer to one request
RefreshReplies ==
  {[threw |-> "", status |-> "200", body |-> "token", expiresIn |-> 3600],
   [threw |-> "", status |-> "400", body |-> "invalid_grant", expiresIn |-> 0],
   [threw |-> "timeout", status |-> "", body |-> "", expiresIn |-> 0]}

\* Every kind of answer refreshAccessToken tells apart: a 200, a non-2xx with
\* error invalid_grant, with another error and a description, with another
\* error and no description, with a body that is not JSON, a timeout and a
\* network failure
AllRefreshReplies ==
  {[threw |-> "", status |-> "200", body |-> "token", expiresIn |-> e] : e \in {0, 3600}}
  \cup {[threw |-> "", status |-> "400", body |-> b, expiresIn |-> 0] :
          b \in {"invalid_grant", "described", "undescribed", "nojson"}}
  \cup {[threw |-> t, status |-> "", body |-> "", expiresIn |-> 0] :
          t \in {"timeout", "network"}}

\* refreshAccessToken: the value it resolves to for a reply; issued is the
\* access_token of a 200 reply
refreshAccessToken_Generic(reply, issued) ==
  IF reply.threw # ""
  THEN [error |-> <<"Token refresh failed">>, accessToken |-> "", expiresIn |-> 0]
  ELSE IF reply.status # "200"
  THEN [error |-> <<"HTTP ", reply.status>>, accessToken |-> "", expiresIn |-> 0]
  ELSE [error |-> <<>>, accessToken |-> issued, expiresIn |-> reply.expiresIn]
refreshAccessToken(reply, issued) ==
  IF reply.threw # ""
  THEN LET message == IF reply.threw = "timeout" THEN TimeoutMessage("8")
                      ELSE NetworkMessage
       IN  IF Includes(message, "timeout")
           THEN [error |-> <<"Token refresh timeout">>, accessToken |-> "", expiresIn |-> 0]
           ELSE [error |-> <<"Token refresh failed">>, accessToken |-> "", expiresIn |-> 0]
  ELSE IF reply.status # "200"
  THEN IF reply.body = "nojson"
       THEN [error |-> <<"HTTP ", reply.status>>, accessToken |-> "", expiresIn |-> 0]
       ELSE IF reply.body = "invalid_grant"
       THEN [error |-> <<"Token revoked">>, accessToken |-> "", expiresIn |-> 0]
       ELSE IF reply.body = "described"
       THEN [error |-> <<"Bad Request">>, accessToken |-> "", expiresIn |-> 0]
       ELSE [error |-> <<"HTTP ", reply.status>>, accessToken |-> "", expiresIn |-> 0]
  ELSE [error |-> <<>>, accessToken |-> issued, expiresIn |-> reply.expiresIn]

\* What the quota endpoint can answer to one request
QuotaReplies ==
  {[threw |-> "", status |-> st, models |-> FALSE] : st \in {"401", "403", "500"}}
  \cup {[threw |-> "", status |-> "200", models |-> m] : m \in BOOLEAN}
  \cup {[threw |-> "timeout", status |-> "", models |-> FALSE]}

\* fetchGoogleQuota: the message of the error it throws, <<>> when it resolves
fetchGoogleQuota(reply) ==
  IF reply.threw = "timeout" THEN TimeoutMessage("6")
  ELSE IF reply.threw # "" THEN NetworkMessage
  ELSE IF reply.status # "200"
  THEN IF reply.status \in {"401", "403"}
       THEN <<"Google API ", "auth error", ": ", reply.status>>
       ELSE <<"Google API ", "error: ", reply.status>>
  ELSE <<>>

\* extractModelQuotas: one entry per requested model the response knows
extractModelQuotas(reply, accountEmail) ==
  IF reply.models THEN <<[modelId |-> "CLAUDE", accountEmail |-> accountEmail]>>
  ELSE <<>>

\* a string that is neither undefined nor empty
Truthy(str) == str # Undefined /\ str # <<>>

\* results[idx]: an empty slot, or what the account's task resolved to
NoResult == [done |-> FALSE, success |-> FALSE, models |-> <<>>, error |-> <<>>,
             accountEmail |-> Undefined]
Failure(error, email) == [NoResult EXCEPT !.done = TRUE, !.error = error,
                                          !.accountEmail = email]
Success(models, email) == [NoResult EXCEPT !.done = TRUE, !.success = TRUE,
                                           !.models = models, !.accountEmail = email]

NoFinal == [state |-> "pending", success |-> FALSE, models |-> <<>>, errors |-> <<>>,
            error |-> <<>>, total |-> 0, successCount |-> 0]

RECURSIVE AllModels(_, _)
AllModels(rs, i) ==
  IF i > Len(rs) THEN <<>>
  ELSE (IF rs[i].success /\ Len(rs[i].models) > 0 THEN rs[i].models ELSE <<>>)
       \o AllModels(rs, i + 1)

RECURSIVE Errors(_, _)
Errors(rs, i) ==
  IF i > Len(rs) THEN <<>>
  ELSE (IF ~rs[i].success /\ Truthy(rs[i].error) /\ Truthy(rs[i].accountEmail)
        THEN <<[email |-> rs[i].accountEmail, error |-> rs[i].error]>> ELSE <<>>)
       \o Errors(rs, i + 1)

\* queryGoogleQuota after mapWithConcurrency: collect models and errors
CombineQuota_FailsWithoutModels(rs) ==
  IF Len(AllModels(rs, 1)) = 0
  THEN [NoFinal EXCEPT !.state = "returned", !.error = <<"No quota data available">>,
                       !.errors = Errors(rs, 1)]
  ELSE [NoFinal EXCEPT !.state = "returned", !.success = TRUE,
                       !.models = AllModels(rs, 1), !.errors = Errors(rs, 1)]
CombineQuota(rs) ==
  IF Len(AllModels(rs, 1)) = 0 /\ Len(Errors(rs, 1)) = 0
  THEN [NoFinal EXCEPT !.state = "returned", !.error = <<"No quota data available">>]
  ELSE [NoFinal EXCEPT !.state = "returned", !.success = TRUE,
                       !.models = AllModels(rs, 1), !.errors = Errors(rs, 1)]

RECURSIVE Failures(_, _)
Failures(rs, i) ==
  IF i > Len(rs) THEN <<>>
  ELSE (IF ~rs[i].success
        THEN <<[email |-> rs[i].accountEmail, error |-> rs[i].error]>> ELSE <<>>)
       \o Failures(rs, i + 1)

\* refreshGoogleTokensForAllAccounts after mapWithConcurrency
CombineRefresh(rs) ==
  [NoFinal EXCEPT !.state = "returned", !.total = Len(rs),
                  !.errors = Failures(rs, 1),
                  !.successCount = Len(rs) - Len(Failures(rs, 1))]

\* mapWithConcurrency: n, and the number of workers it starts
Limit(c) == Max(1, c)
WorkerCount_OnePerItem(c, items) == items
WorkerCount(c, items) == Min(Limit(c), items)

\* the catch around the first fetchGoogleQuota: one auth retry
ShouldRetry_AnyError(stage, message) == stage = "quota1"
ShouldRetry(stage, message) == stage = "quota1" /\ Includes(message, "auth error")

\* the label the task reports for its account
TaskEmail(account) ==
  IF mode = "query"
  THEN (IF Truthy(account.email) THEN account.email ELSE Unknown)
  ELSE account.email

TaskKey(account) ==
  makeAccountCacheKey(account.refreshToken, getProjectId(account), TaskEmail(account))

Ev(e, v) == [e |-> e, v |-> v]
Logged(rec, evs) == [log EXCEPT ![rec.idx] = @ \o evs]

\* the worker's task has settled with result r: mapWithConcurrency stores it
\* and the worker loops
FinishTask(p, rec, r, evs) ==
  /\ results' = [results EXCEPT ![rec.idx] = r]
  /\ proc' = [proc EXCEPT ![p] = [IdleProc EXCEPT !.at = "ready", !.called = TRUE]]
  /\ log' = Logged(rec, evs)
  /\ UNCHANGED <<accounts, concurrency, force, final>>

\* an exception leaves the task: fetchAccountQuotaWithAntigravityRefresh
\* catches it; refreshGoogleTokensForAllAccounts has no handler, so the
\* worker's promise, Promise.all and the entry point reject
Throws(p, rec, message, evs) ==
  IF mode = "query"
  THEN FinishTask(p, rec,
         Failure(IF Includes(message, "timeout") THEN <<"API timeout">> ELSE message,
                 TaskEmail(Account(accounts[rec.idx]))), evs)
  ELSE /\ proc' = [proc EXCEPT ![p] = [IdleProc EXCEPT !.at = "rejected", !.called = TRUE]]
       /\ final' = IF final.state = "pending"
                   THEN [NoFinal EXCEPT !.state = "rejected", !.error = message]
                   ELSE final
       /\ log' = Logged(rec, evs)
       /\ UNCHANGED <<accounts, concurrency, force, results>>

\* refreshAccessToken(refreshToken) is called: the request goes out
IssueRefresh(p, rec, stage, evs) ==
  /\ proc' = [proc EXCEPT ![p] = [rec EXCEPT !.at = stage, !.cpc = "none",
                                             !.op = "none", !.ref = Null]]
  /\ log' = Logged(rec, evs \o <<Ev("refresh", "")>>)
  /\ UNCHANGED <<accounts, concurrency, force, results, final>>

\* fetchGoogleQuota(accessToken, projectId) is called: the request goes out
IssueQuota(p, rec, stage, token, evs) ==
  /\ proc' = [proc EXCEPT ![p] = [rec EXCEPT !.at = stage, !.cpc = "none",
                                             !.op = "none", !.ref = Null,
                                             !.tok = token]]
  /\ log' = Logged(rec, evs \o <<Ev("quota", token)>>)
  /\ UNCHANGED <<accounts, concurrency, force, results, final>>

\* refreshAccessTokenWithCache returned {accessToken}
TokenResolved(p, rec, token, evs) ==
  IF mode = "query"
  THEN IssueQuota(p, rec, "quota1", token, evs)
  ELSE FinishTask(p, rec, Success(<<>>, TaskEmail(Account(accounts[rec.idx]))), evs)

\* history: the cache holds an entry for the key that outlives now + skew
HoldsFresh(key, skewMs, t) ==
  /\ memCache # Null
  /\ key \in DOMAIN objs[memCache].tokens
  /\ objs[memCache].tokens[key].expiresAt > t + skewMs

\* a worker continues after the cache call it awaited
WorkerContinues(p, rec) ==
  CASE rec.at = "tok_get" ->
         LET ev == Ev("get", IF HoldsFresh(rec.key, rec.skew, now') THEN "fresh" ELSE "stale")
         IN  IF rec.hit # <<>>
             THEN TokenResolved(p, rec, rec.hit[1].accessToken, <<ev>>)
             ELSE IssueRefresh(p, rec, "tok_refresh", <<ev>>)
    [] rec.at = "tok_set" ->
         IF rec.outcome = "ok"
         THEN TokenResolved(p, rec, rec.entry.accessToken, <<Ev("set", "ok")>>)
         ELSE Throws(p, rec, FsMessage, <<Ev("set", "threw")>>)
    [] rec.at = "retry_set" ->
         IF rec.outcome = "ok"
         THEN IssueQuota(p, rec, "quota2", rec.entry.accessToken, <<Ev("set", "ok")>>)
         ELSE Throws(p, rec, FsMessage, <<Ev("set", "threw")>>)

\* no report command and no /quota command is served
NoCommands ==
  /\ storage = <<>>
  /\ command = <<>>
  /\ request = <<>>
  /\ thrown = <<>>
  /\ quotaCache = <<>>
  /\ invocations = <<>>
  /\ fetches = <<>>

\* no aggregateUsage call is made
NoStats ==
  /\ NoCommands
  /\ messages = <<>>
  /\ catalog = EmptyTokens
  /\ run = 0
  /\ msgIndex = 0
  /\ byModel = <<>>
  /\ bySession = <<>>
  /\ bySourceProvider = <<>>
  /\ bySourceModel = <<>>
  /\ unknown = <<>>
  /\ totals = <<>>
  /\ result = <<>>
  /\ firstResult = <<>>

\* the caller of a cache function continues with its result
Return(p, rec) ==
  IF mode = "cache"
  THEN /\ proc' = [proc EXCEPT ![p] = [rec EXCEPT !.at = "idle", !.cpc = "none",
                                                  !.ref = Null]]
       /\ UNCHANGED orchVars
  ELSE WorkerContinues(p, rec)

\* getCachedAccessToken({key, skewMs}) is called
ApiGet(p, k, skewMs) ==
  /\ MayCall(p)
  /\ CallEnsureLoaded
  /\ proc' = [proc EXCEPT ![p] = [IdleProc EXCEPT !.at = "get", !.op = "get",
                !.cpc = "ensure", !.ref = EnsureRef, !.key = k, !.skew = skewMs,
                !.cr = clearsReturned, !.called = TRUE]]
  /\ calls' = calls + 1
  /\ overlap' = (overlap \/ \E q \in DOMAIN proc : Busy(q))
  /\ UNCHANGED <<statVars, mode, now, memCache, objs, file, writesInFlight,
                 clearsCalled, clearsReturned, lastSet, orchVars>>

\* setCachedAccessToken({key, entry}) is called
ApiSet(p, k, e) ==
  /\ MayCall(p)
  /\ CallEnsureLoaded
  /\ proc' = [proc EXCEPT ![p] = [IdleProc EXCEPT !.at = "set", !.op = "set",
                !.cpc = "ensure", !.ref = EnsureRef, !.key = k, !.entry = e,
                !.called = TRUE]]
  /\ calls' = calls + 1
  /\ overlap' = (overlap \/ \E q \in DOMAIN proc : Busy(q))
  /\ UNCHANGED <<statVars, mode, now, memCache, objs, file, writesInFlight,
                 clearsCalled, clearsReturned, lastSet, orchVars>>

\* persist(), synchronous part: nothing to do without memCache, else mkdir is
\* issued
PersistStarts(mc) == IF mc = Null THEN "none" ELSE "mkdir"

\* clearGoogleTokenCache() is called: memCache is replaced, persist() starts
ApiClear(p) ==
  /\ MayCall(p)
  /\ objs' = Append(objs, NewCacheFile)
  /\ memCache' = Len(objs) + 1
  /\ clearsCalled' = clearsCalled + 1
  /\ lastSet' = EmptyTokens
  /\ proc' = [proc EXCEPT ![p] = [IdleProc EXCEPT !.at = "clear", !.op = "clear",
                !.cpc = PersistStarts(Len(objs) + 1), !.cr = clearsCalled + 1,
                !.called = TRUE]]
  /\ calls' = calls + 1
  /\ overlap' = (overlap \/ \E q \in DOMAIN proc : Busy(q))
  /\ UNCHANGED <<statVars, mode, now, loadPromise, file, reads, writesInFlight, clearsReturned,
                 orchVars>>

\* `await ensureLoaded()` resumes in getCachedAccessToken: look the key up
GetResumes(p) ==
  /\ proc[p].cpc = "ensure" /\ proc[p].ref # Pending
  /\ proc[p].op = "get"
  /\ now' \in Clock
  /\ Return(p, [proc[p] EXCEPT
         !.hit = LookUp(objs[proc[p].ref], proc[p].key, proc[p].skew, now'),
         !.outcome = "ok",
         !.ep = IF proc[p].key \in DOMAIN objs[proc[p].ref].epoch
                THEN objs[proc[p].ref].epoch[proc[p].key] ELSE 0,
         !.want = Expected(proc[p].key, proc[p].skew, now')])
  /\ UNCHANGED <<statVars, mode, cacheVars, histVars, lastSet, nextIndex>>

\* `await ensureLoaded()` resumes in setCachedAccessToken: mutate the object
\* the caller was handed, then persist()
SetResumes(p) ==
  /\ proc[p].cpc = "ensure" /\ proc[p].ref # Pending
  /\ proc[p].op = "set"
  /\ objs' = [objs EXCEPT ![proc[p].ref] =
                [tokens |-> Put(@.tokens, proc[p].key, proc[p].entry),
                 epoch |-> Put(@.epoch, proc[p].key, clearsCalled)]]
  /\ lastSet' = Put(lastSet, proc[p].key, proc[p].entry)
  /\ IF PersistStarts(memCache) = "none"
     THEN Return(p, [proc[p] EXCEPT !.outcome = "ok"])
     ELSE proc' = [proc EXCEPT ![p].cpc = "mkdir"] /\ UNCHANGED orchVars
  /\ UNCHANGED <<statVars, mode, now, memCache, loadPromise, file, reads, writesInFlight,
                 histVars, nextIndex>>

\* mkdir settles; on success writeFile is issued with the JSON text of whatever
\* memCache is now
MkdirSettles(p, ok) ==
  /\ proc[p].cpc = "mkdir"
  /\ IF ok
     THEN /\ writesInFlight' =
               Put([q \in DOMAIN writesInFlight |->
                      [writesInFlight[q] EXCEPT !.raced = TRUE]],
                   p, [content |-> Stringify(objs[memCache]),
                       epoch |-> objs[memCache].epoch,
                       raced |-> DOMAIN writesInFlight # {}])
          /\ proc' = [proc EXCEPT ![p].cpc = "write"]
          /\ UNCHANGED <<clearsReturned, orchVars>>
     ELSE /\ Return(p, [proc[p] EXCEPT !.outcome = "threw"])
          /\ UNCHANGED <<writesInFlight, clearsReturned>>
  /\ UNCHANGED <<statVars, mode, now, memCache, loadPromise, objs, file, reads,
                 clearsCalled, overlap, calls, lastSet, nextIndex>>

\* writeFile settles.  Nothing orders two writeFile calls on the same path:
\* they settle in either order, and a write that overlapped another may leave
\* a mix of the two texts.
WriteSettles(p, ok, torn) ==
  /\ proc[p].cpc = "write"
  /\ torn => (ok /\ writesInFlight[p].raced)
  /\ file' = IF ~ok THEN file
             ELSE IF torn THEN Garbage
             ELSE writesInFlight[p].content
  /\ writesInFlight' = [q \in DOMAIN writesInFlight \ {p} |-> writesInFlight[q]]
  /\ Return(p, [proc[p] EXCEPT !.outcome = IF ok THEN "ok" ELSE "threw"])
  /\ clearsReturned' = clearsReturned + (IF ok /\ proc[p].op = "clear" THEN 1 ELSE 0)
  /\ UNCHANGED <<statVars, mode, now, memCache, loadPromise, objs, reads, clearsCalled,
                 overlap, calls, lastSet, nextIndex>>


\* ------------------------------------------- orchestrator: workers and tasks
\* mapWithConcurrency is called with the accounts
Begin ==
  /\ mode # "cache"
  /\ proc = <<>>
  /\ proc' = [p \in 1..WorkerCount(concurrency, Len(accounts)) |->
                [IdleProc EXCEPT !.at = "ready"]]
  /\ UNCHANGED <<statVars, mode, now, cacheVars, histVars, lastSet, orchVars>>

\* the task function runs up to its first await
StartTask(p, idx) ==
  LET account == Account(accounts[idx])
      projectId == getProjectId(account)
      rec == [IdleProc EXCEPT !.called = TRUE, !.idx = idx]
  IN  IF projectId = ""
      THEN /\ FinishTask(p, rec, Failure(<<"No projectId">>, TaskEmail(account)), <<>>)
           /\ UNCHANGED <<loadPromise, reads>>
      ELSE IF mode = "refreshAll" /\ force
      THEN /\ IssueRefresh(p, [rec EXCEPT !.key = TaskKey(account)], "tok_refresh", <<>>)
           /\ UNCHANGED <<loadPromise, reads>>
      ELSE /\ CallEnsureLoaded
           /\ proc' = [proc EXCEPT ![p] =
                         [rec EXCEPT !.at = "tok_get", !.op = "get", !.cpc = "ensure",
                                     !.ref = EnsureRef, !.key = TaskKey(account),
                                     !.skew = DEFAULT_SKEW_MS]]
           /\ UNCHANGED <<accounts, concurrency, force, results, final, log>>

\* the worker found no item left and returns; when the last one has, Promise.all
\* resolves and the entry point combines the results
WorkerExits(p) ==
  /\ proc' = [proc EXCEPT ![p] = [IdleProc EXCEPT !.at = "exit", !.called = TRUE]]
  /\ final' = IF final.state = "pending"
                 /\ \A q \in DOMAIN proc \ {p} : proc[q].at = "exit"
              THEN (IF mode = "query" THEN CombineQuota(results)
                    ELSE CombineRefresh(results))
              ELSE final
  /\ UNCHANGED <<accounts, concurrency, force, results, log, loadPromise, reads>>

\* one turn of a worker's loop: take the next index, start its task or return
WorkerLoop(p) ==
  /\ mode # "cache"
  /\ p \in DOMAIN proc
  /\ proc[p].at = "ready"
  /\ IF proc[p].called THEN Launched ELSE \A q \in 1..(p - 1) : proc[q].called
  /\ nextIndex' = nextIndex + 1
  /\ IF nextIndex > Len(accounts) THEN WorkerExits(p) ELSE StartTask(p, nextIndex)
  /\ UNCHANGED <<statVars, mode, now, memCache, objs, file, writesInFlight, histVars, lastSet>>

RECURSIVE Count(_, _)
Count(evs, e) ==
  IF evs = <<>> THEN 0
  ELSE (IF Head(evs).e = e THEN 1 ELSE 0) + Count(Tail(evs), e)

\* the token endpoint's answer arrives: refreshAccessToken resolves and its
\* caller continues
RefreshResponds(p, reply) ==
  /\ mode # "cache"
  /\ Launched
  /\ p \in DOMAIN proc
  /\ proc[p].at \in {"tok_refresh", "retry_refresh"}
  /\ LET rec == proc[p]
         account == Account(accounts[rec.idx])
         r == refreshAccessToken(reply,
                AccessTokens[accounts[rec.idx]][Count(log[rec.idx], "refresh")])
     IN  IF r.error # <<>>
         THEN /\ FinishTask(p, rec, Failure(r.error, TaskEmail(account)),
                            <<Ev("refreshed", IF reply.threw # "" THEN reply.threw
                                              ELSE reply.body)>>)
              /\ UNCHANGED <<now, loadPromise, reads>>
         ELSE /\ now' \in Clock
              /\ CallEnsureLoaded
              /\ proc' = [proc EXCEPT ![p] =
                   [rec EXCEPT !.at = IF rec.at = "tok_refresh" THEN "tok_set"
                                      ELSE "retry_set",
                               !.op = "set", !.cpc = "ensure", !.ref = EnsureRef,
                               !.entry = [accessToken |-> r.accessToken,
                                          expiresAt |-> now' + Max(1, r.expiresIn) * 1000,
                                          projectId |-> getProjectId(account),
                                          email |-> TaskEmail(account)]]]
              /\ log' = Logged(rec, <<Ev("refreshed", r.accessToken)>>)
              /\ UNCHANGED <<accounts, concurrency, force, results, final>>
  /\ UNCHANGED <<statVars, mode, memCache, objs, file, writesInFlight, histVars, lastSet,
                 nextIndex>>

\* the quota endpoint's answer arrives: fetchGoogleQuota settles and
\* fetchAccountQuotaWithAntigravityRefresh continues
QuotaResponds(p, reply) ==
  /\ mode = "query"
  /\ Launched
  /\ p \in DOMAIN proc
  /\ proc[p].at \in {"quota1", "quota2"}
  /\ LET rec == proc[p]
         email == TaskEmail(Account(accounts[rec.idx]))
         message == fetchGoogleQuota(reply)
         ev == Ev("reply", IF reply.threw # "" THEN reply.threw ELSE reply.status)
     IN  IF message = <<>>
         THEN FinishTask(p, rec, Success(extractModelQuotas(reply, email), email), <<ev>>)
         ELSE IF ShouldRetry(rec.at, message)
         THEN IssueRefresh(p, rec, "retry_refresh", <<ev>>)
         ELSE Throws(p, rec, message, <<ev>>)
  /\ UNCHANGED <<statVars, mode, now, cacheVars, histVars, lastSet, nextIndex>>


\* ------------------------------------------------- SpecCache: the cache API
ApiSkews == {0, DEFAULT_SKEW_MS}

ApiEntry(i, c, life) ==
  [accessToken |-> AccessTokens[i][c], expiresAt |-> Now0 + life,
   projectId |-> ProjectIds[i], email |-> Emails[i]]

ApiKey(i) == makeAccountCacheKey(RefreshTokens[i], ProjectIds[i], Emails[i])

\* a cache file left by an earlier process: account 1's token, still valid
StoredFile ==
  [kind |-> "json", isObject |-> TRUE, version |-> CACHE_VERSION,
   tokensIsObject |-> TRUE,
   tokens |-> Put(EmptyTokens, ApiKey(1),
                  [accessToken |-> "at1.0", expiresAt |-> Now0 + 5 * TickMs,
                   projectId |-> ProjectIds[1], email |-> Emails[1]])]

\* documents loadFromDisk rejects: JSON that is not an object, another
\* version, and tokens missing or not an object
NotAnObject == [StoredFile EXCEPT !.isObject = FALSE, !.tokensIsObject = FALSE,
                                  !.tokens = EmptyTokens]
WrongVersion == [StoredFile EXCEPT !.version = CACHE_VERSION + 1]
NoTokens == [StoredFile EXCEPT !.tokensIsObject = FALSE, !.tokens = EmptyTokens]

InitialFiles == {Missing, Garbage, StoredFile, NotAnObject, WrongVersion, NoTokens}

InitCache ==
  /\ mode = "cache"
  /\ now = Now0
  /\ memCache = Null
  /\ loadPromise = FALSE
  /\ objs = <<>>
  /\ file \in InitialFiles
  /\ reads = 0
  /\ writesInFlight = EmptyTokens
  /\ proc = [p \in 1..MaxCallers |-> IdleProc]
  /\ calls = 0
  /\ clearsCalled = 0
  /\ clearsReturned = 0
  /\ overlap = FALSE
  /\ lastSet = loadFromDisk(file).tokens
  /\ accounts = <<>>
  /\ concurrency = 0
  /\ force = FALSE
  /\ nextIndex = 1
  /\ results = <<>>
  /\ final = NoFinal
  /\ log = <<>>
  /\ NoStats

NextCache ==
  \/ \E p \in DOMAIN proc, s \in ApiSkews : ApiGet(p, ApiKey(p), s)
  \/ \E p \in DOMAIN proc : ApiSet(p, ApiKey(p), ApiEntry(p, calls + 1, TickMs))
  \/ \E p \in DOMAIN proc : ApiClear(p)
  \/ LoadSettles
  \/ \E p \in DOMAIN proc : GetResumes(p)
  \/ \E p \in DOMAIN proc : SetResumes(p)
  \/ \E p \in DOMAIN proc, ok \in BOOLEAN : MkdirSettles(p, ok)
  \/ \E p \in DOMAIN proc, ok \in BOOLEAN, torn \in BOOLEAN : WriteSettles(p, ok, torn)

SpecCache == InitCache /\ [][NextCache]_vars

\* ------------------------------------------------ usage: model identifiers
\* Identifiers are fragment sequences cut so that every prefix, suffix and
\* pattern the code tests for is a whole fragment.  A value that is not a
\* string, and a property that is not there, are sentinels.
NotAString == <<"\\number">>
Absent == <<"\\absent">>
Str(text) == <<text>>

StartsWith(s, prefix) == s # <<>> /\ s[1] = prefix
EndsWith(s, suffix) == s # <<>> /\ s[Len(s)] = suffix
Least(set) == CHOOSE j \in set : \A k \in set : j <= k
Splice(s, from, to, repl) == SubSeq(s, 1, from - 1) \o repl \o SubSeq(s, to + 1, Len(s))

\* fragments that begin with a non-word character, and the ones the two
\* patterns of normalizeModelId accept in their groups
DashFragments == {"-thinking", "-Thinking", "-free", "-preview", "-opus", "-Opus",
                  "-4-5", "-4.5", "-4.7", "-k2", "-3-pro", "-3-flash", "-x-"}
NameFragments == {"-opus", "-Opus"}
VersionFragments == {"-4.7"}
WordEndsAt(s, k) == k = Len(s) \/ s[k + 1] \in DashFragments
WordStartsAt(s, j) == j = 1 \/ s[j - 1] \in {"antigravity-", "Antigravity-", "-x-", " "}

\* s.replace(/claude-([a-z-]+)-4\.5\b/i, "claude-$1-4-5")
ReplaceClaudeDot(s) ==
  LET hits == {j \in 1..(Len(s) - 2) :
                 /\ LowerChar(s[j]) = "claude"
                 /\ s[j + 1] \in NameFragments
                 /\ s[j + 2] = "-4.5"
                 /\ WordEndsAt(s, j + 2)}
  IN  IF hits = {} THEN s
      ELSE Splice(s, Least(hits), Least(hits) + 2,
                  <<"claude", s[Least(hits) + 1], "-4-5">>)

\* s.replace(/\bglm-(\d+)\.(\d+)-free\b/i, "glm-$1.$2")
ReplaceGlmFree(s) ==
  LET hits == {j \in 1..(Len(s) - 2) :
                 /\ WordStartsAt(s, j)
                 /\ LowerChar(s[j]) = "glm"
                 /\ s[j + 1] \in VersionFragments
                 /\ LowerChar(s[j + 2]) = "-free"
                 /\ WordEndsAt(s, j + 2)}
  IN  IF hits = {} THEN s
      ELSE Splice(s, Least(hits), Least(hits) + 2, <<"glm", s[Least(hits) + 1]>>)

normalizeModelId_KeepsSuffix(raw) ==
  LET s1 == Trim(raw)
      s2 == IF StartsWith(ToLowerCase(s1), "antigravity-") THEN Tail(s1) ELSE s1
      s4 == ReplaceClaudeDot(s2)
      s5 == ReplaceGlmFree(s4)
  IN  IF ToLowerCase(s5) = <<"big-pickle">> THEN <<"glm", "-4.7">> ELSE s5
normalizeModelId(raw) ==
  LET s1 == Trim(raw)
      s2 == IF StartsWith(ToLowerCase(s1), "antigravity-") THEN Tail(s1) ELSE s1
      s3 == IF EndsWith(ToLowerCase(s2), "-thinking")
            THEN SubSeq(s2, 1, Len(s2) - 1) ELSE s2
      s4 == ReplaceClaudeDot(s3)
      s5 == ReplaceGlmFree(s4)
  IN  IF ToLowerCase(s5) = <<"big-pickle">> THEN <<"glm", "-4.7">> ELSE s5

\* inferOfficialProviderFromModelId: <<>> is null
inferOfficialProviderFromModelId_SubstringFirst(modelId) ==
  LET lower == ToLowerCase(modelId)
  IN  IF Includes(lower, "claude") THEN Str("anthropic")
      ELSE IF Includes(lower, "gemini") THEN Str("google")
      ELSE IF Includes(lower, "gpt") THEN Str("openai")
      ELSE IF Includes(lower, "kimi") THEN Str("moonshotai")
      ELSE IF Includes(lower, "glm") THEN Str("zai")
      ELSE IF StartsWith(lower, "o") THEN Str("openai")
      ELSE <<>>
inferOfficialProviderFromModelId(modelId) ==
  LET lower == ToLowerCase(modelId)
  IN  IF StartsWith(lower, "claude") THEN Str("anthropic")
      ELSE IF StartsWith(lower, "gpt") \/ StartsWith(lower, "o") THEN Str("openai")
      ELSE IF StartsWith(lower, "gemini") THEN Str("google")
      ELSE IF StartsWith(lower, "kimi") THEN Str("moonshotai")
      ELSE IF StartsWith(lower, "glm") THEN Str("zai")
      ELSE IF Includes(lower, "claude") THEN Str("anthropic")
      ELSE IF Includes(lower, "gemini") THEN Str("google")
      ELSE IF Includes(lower, "gpt") THEN Str("openai")
      ELSE IF Includes(lower, "kimi") THEN Str("moonshotai")
      ELSE IF Includes(lower, "glm") THEN Str("zai")
      ELSE <<>>

\* ------------------------------------------------------- usage: the catalog
\* lookupCost(provider, model): <<>> is null, else <<rates>>.  Rates are USD
\* per 1M tokens; a rate the entry omits is <<>>.
lookupCost(cat, provider, model) ==
  IF <<provider, model>> \in DOMAIN cat THEN <<cat[<<provider, model>>]>> ELSE <<>>

Rates(in, out, cr, cw, rs) ==
  [input |-> in, output |-> out, cache_read |-> cr, cache_write |-> cw, reasoning |-> rs]

KimiK2 == <<"kimi", "-k2">>
KimiK2Thinking == <<"kimi", "-k2", "-thinking">>
Gemini3Pro == <<"gemini", "-3-pro">>
Gemini3ProPreview == <<"gemini", "-3-pro", "-preview">>
Gemini3Flash == <<"gemini", "-3-flash">>
Gemini3FlashPreview == <<"gemini", "-3-flash", "-preview">>
ClaudeOpus45 == <<"claude", "-opus", "-4-5">>

NoKey == [provider |-> <<>>, model |-> <<>>]
NoUnknown == [sourceProviderID |-> <<>>, sourceModelID |-> <<>>,
              mappedProvider |-> Absent, mappedModel |-> Absent]

\* a ?? "unknown"
OrUnknown(a) == IF a = Undefined THEN Str("unknown") ELSE a

\* the unknown key of a model id that no heuristic matches
Unmapped_NamesProvider(srcProvider, srcModel, normalizedModel) ==
  [sourceProviderID |-> srcProvider, sourceModelID |-> srcModel,
   mappedProvider |-> Str("unknown"), mappedModel |-> normalizedModel]
Unmapped(srcProvider, srcModel, normalizedModel) ==
  [sourceProviderID |-> srcProvider, sourceModelID |-> srcModel,
   mappedProvider |-> Undefined, mappedModel |-> normalizedModel]

\* mapToOfficialPricingKey({providerID, modelID})
mapToOfficialPricingKey(cat, providerID, modelID) ==
  LET srcProvider == OrUnknown(providerID)
      srcModel == OrUnknown(modelID)
      normalizedModel == normalizeModelId(modelID)
      inferredProvider == inferOfficialProviderFromModelId(normalizedModel)
      Key(provider, model) ==
        [ok |-> TRUE, key |-> [provider |-> provider, model |-> model],
         unknown |-> NoUnknown]
  IN  IF modelID = Undefined \/ modelID = <<>> \/ modelID = NotAString
      THEN [ok |-> FALSE, key |-> NoKey,
            unknown |-> [NoUnknown EXCEPT !.sourceProviderID = srcProvider,
                                          !.sourceModelID = srcModel]]
      ELSE IF inferredProvider = <<>>
      THEN [ok |-> FALSE, key |-> NoKey,
            unknown |-> Unmapped(srcProvider, srcModel, normalizedModel)]
      ELSE IF /\ inferredProvider = Str("moonshotai")
              /\ normalizedModel = KimiK2
              /\ lookupCost(cat, Str("moonshotai"), KimiK2Thinking) # <<>>
      THEN Key(Str("moonshotai"), KimiK2Thinking)
      ELSE IF /\ inferredProvider = Str("google")
              /\ normalizedModel = Gemini3Pro
              /\ lookupCost(cat, Str("google"), Gemini3Pro) = <<>>
              /\ lookupCost(cat, Str("google"), Gemini3ProPreview) # <<>>
      THEN Key(Str("google"), Gemini3ProPreview)
      ELSE IF /\ inferredProvider = Str("google")
              /\ normalizedModel = Gemini3Flash
              /\ lookupCost(cat, Str("google"), Gemini3Flash) = <<>>
              /\ lookupCost(cat, Str("google"), Gemini3FlashPreview) # <<>>
      THEN Key(Str("google"), Gemini3FlashPreview)
      ELSE Key(inferredProvider, normalizedModel)

\* ------------------------------------------------------------ usage: cost
\* Amounts of money are in millionths of a USD, so that tokens * rate / 1e6
\* USD is the integer tokens * rate.
Fields == <<"input", "output", "reasoning", "cache_read", "cache_write">>

emptyBuckets == [input |-> 0, output |-> 0, reasoning |-> 0, cache_read |-> 0,
                 cache_write |-> 0]
addBuckets(a, b) ==
  [input |-> a.input + b.input, output |-> a.output + b.output,
   reasoning |-> a.reasoning + b.reasoning,
   cache_read |-> a.cache_read + b.cache_read,
   cache_write |-> a.cache_write + b.cache_write]

\* typeof x === "number" ? x : 0, on an optional number
NumberOr0(x) == IF x = <<>> THEN 0 ELSE x[1]
\* a ?? b, on optional numbers
Coalesce_First(a, b) == a
Coalesce(a, b) == IF a = <<>> THEN b ELSE a

messageBuckets(msg) ==
  IF ~msg.hasTokens THEN emptyBuckets
  ELSE [input |-> NumberOr0(msg.tokens.input), output |-> NumberOr0(msg.tokens.output),
        reasoning |-> NumberOr0(msg.tokens.reasoning),
        cache_read |-> NumberOr0(msg.tokens.cache_read),
        cache_write |-> NumberOr0(msg.tokens.cache_write)]

calculateCostUsd(cat, provider, model, tokens) ==
  LET found == lookupCost(cat, provider, model)
      cost == found[1]
      inRate == NumberOr0(cost.input)
      outRate == NumberOr0(cost.output)
      cacheReadRate == NumberOr0(Coalesce(cost.cache_read, cost.input))
      cacheWriteRate == NumberOr0(Coalesce(cost.cache_write, cost.input))
      reasoningRate == NumberOr0(Coalesce(cost.reasoning, cost.output))
  IN  IF found = <<>> THEN [ok |-> FALSE, costUsd |-> 0]
      ELSE [ok |-> TRUE,
            costUsd |-> tokens.input * inRate + tokens.output * outRate
                        + tokens.cache_read * cacheReadRate
                        + tokens.cache_write * cacheWriteRate
                        + tokens.reasoning * reasoningRate]

\* ------------------------------------------------- usage: aggregateUsage
\* JSON.stringify of an unknown key: the properties that are there and defined
StringifyKey(u) ==
  <<"sourceProviderID", u.sourceProviderID, "sourceModelID", u.sourceModelID>>
  \o (IF u.mappedProvider \in {Absent, Undefined} THEN <<>>
      ELSE <<"mappedProvider", u.mappedProvider>>)
  \o (IF u.mappedModel \in {Absent, Undefined} THEN <<>>
      ELSE <<"mappedModel", u.mappedModel>>)

\* a Map is the sequence of its entries [k, row] in insertion order
HasKey(map, k) == \E j \in DOMAIN map : map[j].k = k
IndexOf(map, k) == CHOOSE j \in DOMAIN map : map[j].k = k

\* map.get(k), then either add to the row found or map.set(k, fresh)
Accumulate_KeepsFirst(map, k, fresh, tokens, costUsd) ==
  IF HasKey(map, k) THEN map ELSE Append(map, [k |-> k, row |-> fresh])
Accumulate(map, k, fresh, tokens, costUsd) ==
  IF HasKey(map, k)
  THEN [map EXCEPT ![IndexOf(map, k)].row =
          [@ EXCEPT !.tokens = addBuckets(@, tokens),
                    !.costUsd = @ + costUsd,
                    !.messageCount = @ + 1]]
  ELSE Append(map, [k |-> k, row |-> fresh])

AccumulateUnknown(map, k, fresh, tokens) ==
  IF HasKey(map, k)
  THEN [map EXCEPT ![IndexOf(map, k)].row =
          [@ EXCEPT !.tokens = addBuckets(@, tokens), !.messageCount = @ + 1]]
  ELSE Append(map, [k |-> k, row |-> fresh])

\* Array.from(map.values())
Values(map) == [j \in DOMAIN map |-> map[j].row]

\* Array.prototype.sort with the comparator (a, b) => m(b) - m(a), on rows
\* paired with their measure: a stable sort, largest measure first
InsertDesc_BeforeEquals(sorted, x) ==
  LET ahead == {j \in DOMAIN sorted : sorted[j].m > x.m}
      at == IF ahead = {} THEN 0 ELSE CHOOSE j \in ahead : \A k \in ahead : k <= j
  IN  SubSeq(sorted, 1, at) \o <<x>> \o SubSeq(sorted, at + 1, Len(sorted))
InsertDesc(sorted, x) ==
  LET ahead == {j \in DOMAIN sorted : sorted[j].m >= x.m}
      at == IF ahead = {} THEN 0 ELSE CHOOSE j \in ahead : \A k \in ahead : k <= j
  IN  SubSeq(sorted, 1, at) \o <<x>> \o SubSeq(sorted, at + 1, Len(sorted))

RECURSIVE SortDesc(_)
SortDesc(pairs) ==
  IF pairs = <<>> THEN <<>>
  ELSE InsertDesc(SortDesc(SubSeq(pairs, 1, Len(pairs) - 1)), pairs[Len(pairs)])

TokenCount(t) == t.input + t.output + t.reasoning + t.cache_read + t.cache_write

SortByCost_Unsorted(rows) == rows
SortByCost(rows) ==
  LET sorted == SortDesc([j \in DOMAIN rows |-> [m |-> rows[j].costUsd, row |-> rows[j]]])
  IN  [j \in DOMAIN sorted |-> sorted[j].row]

SortByTokens(rows) ==
  LET sorted == SortDesc([j \in DOMAIN rows |->
                            [m |-> TokenCount(rows[j].tokens), row |-> rows[j]]])
  IN  [j \in DOMAIN sorted |-> sorted[j].row]

\* readAllSessionsIndex(): sessionsIdx[sid]?.title
SessionTitle(sid) == IF sid = "s1" THEN Str("Session one") ELSE Undefined

NewTotals == [priced |-> emptyBuckets, unknown |-> emptyBuckets, costUsd |-> 0]

\* new Map()
NewMap(old) == <<>>

\* the messages the storage reader can return
Tokens(in, out, rs, cr, cw) ==
  [input |-> in, output |-> out, reasoning |-> rs, cache_read |-> cr, cache_write |-> cw]
Message(sid, providerID, modelID, hasTokens, tokens) ==
  [sessionID |-> sid, providerID |-> providerID, modelID |-> modelID,
   hasTokens |-> hasTokens, tokens |-> tokens]
NoTokenFields == Tokens(<<>>, <<>>, <<>>, <<>>, <<>>)
MessageRoster ==
  << Message("s1", Str("opencode"), <<"claude", "-opus", "-4-5", "-thinking">>, TRUE,
             Tokens(<<1000>>, <<500>>, <<>>, <<>>, <<>>)),
     Message("s1", Str("opencode"), ClaudeOpus45, TRUE,
             Tokens(<<200>>, <<100>>, <<>>, <<>>, <<>>)),
     Message("s2", Str("opencode"), <<"Claude", "-Opus", "-4-5">>, TRUE,
             Tokens(<<200>>, <<100>>, <<>>, <<>>, <<>>)),
     Message("s2", Str("google"),
             <<"Antigravity-", "Claude", "-opus", "-4.5", "-Thinking">>, TRUE,
             Tokens(<<10>>, <<>>, <<7>>, <<10>>, <<5>>)),
     Message("s1", Str("opencode"), KimiK2, TRUE,
             Tokens(<<300>>, <<0>>, <<0>>, <<0>>, <<0>>)),
     Message("s2", Str("opencode"), Gemini3Pro, TRUE,
             Tokens(<<250>>, <<250>>, <<>>, <<>>, <<>>)),
     Message("s2", Undefined, <<"unknown-custom-model-v2">>, TRUE,
             Tokens(<<40>>, <<2>>, <<>>, <<>>, <<>>)),
     Message("s1", Str("opencode"), Undefined, FALSE, NoTokenFields),
     Message("s1", Str("opencode"), <<"glm", "-x-", "claude">>, TRUE,
             Tokens(<<7>>, <<7>>, <<>>, <<>>, <<>>)),
     Message("s2", Str("opencode"), NotAString, TRUE,
             Tokens(<<1>>, <<>>, <<>>, <<>>, <<>>)),
     Message("s2", Str("opencode"), <<"o", "3-mini">>, TRUE,
             Tokens(<<100>>, <<100>>, <<>>, <<>>, <<>>)),
     Message("s1", Str("opencode"), Gemini3Flash, TRUE,
             Tokens(<<0>>, <<0>>, <<0>>, <<0>>, <<0>>)),
     Message("s1", Str("opencode"), <<>>, TRUE,
             Tokens(<<3>>, <<1>>, <<>>, <<>>, <<>>)) >>

\* catalogs: the one the code's comments describe (no kimi-k2, previews only),
\* one that also has the primary names, and an empty one
CatalogPreviews ==
  (<<Str("anthropic"), ClaudeOpus45>> :> Rates(<<5>>, <<25>>, <<>>, <<>>, <<>>))
  @@ (<<Str("moonshotai"), KimiK2Thinking>> :> Rates(<<1>>, <<3>>, <<0>>, <<>>, <<>>))
  @@ (<<Str("google"), Gemini3ProPreview>> :> Rates(<<2>>, <<12>>, <<1>>, <<>>, <<>>))
  @@ (<<Str("google"), Gemini3FlashPreview>> :> Rates(<<1>>, <<2>>, <<>>, <<>>, <<>>))
  @@ (<<Str("openai"), <<"o", "3-mini">> >> :> Rates(<<0>>, <<0>>, <<>>, <<>>, <<>>))
CatalogPrimaries ==
  (<<Str("anthropic"), ClaudeOpus45>> :> Rates(<<5>>, <<25>>, <<1>>, <<6>>, <<30>>))
  @@ (<<Str("moonshotai"), KimiK2>> :> Rates(<<2>>, <<8>>, <<>>, <<>>, <<>>))
  @@ (<<Str("moonshotai"), KimiK2Thinking>> :> Rates(<<1>>, <<3>>, <<>>, <<>>, <<>>))
  @@ (<<Str("google"), Gemini3Pro>> :> Rates(<<4>>, <<20>>, <<>>, <<>>, <<>>))
  @@ (<<Str("google"), Gemini3ProPreview>> :> Rates(<<2>>, <<12>>, <<>>, <<>>, <<>>))
  @@ (<<Str("google"), Gemini3Flash>> :> Rates(<<1>>, <<2>>, <<>>, <<>>, <<>>))
Catalogs == {CatalogPreviews, CatalogPrimaries, EmptyTokens}

RECURSIVE MessageLists(_)
MessageLists(n) ==
  IF n = 0 THEN {<<>>}
  ELSE MessageLists(n - 1)
       \cup {Append(l, MessageRoster[r]) :
               l \in {x \in MessageLists(n - 1) : Len(x) = n - 1},
               r \in DOMAIN MessageRoster}

\* everything but the aggregation's state
progVars == <<mode, now, cacheVars, proc, histVars, lastSet, orchVars, reportVars, quotaVars>>

\* aggregateUsage is called: the messages are read, the maps and totals created
StartRun ==
  /\ mode = "stats"
  /\ run = 0 \/ (run = 1 /\ result # <<>>)
  /\ run' = run + 1
  /\ msgIndex' = 1
  /\ byModel' = NewMap(byModel)
  /\ bySession' = NewMap(bySession)
  /\ bySourceProvider' = NewMap(bySourceProvider)
  /\ bySourceModel' = NewMap(bySourceModel)
  /\ unknown' = NewMap(unknown)
  /\ totals' = NewTotals
  /\ result' = <<>>
  /\ UNCHANGED <<progVars, messages, catalog, firstResult>>

\* the record is counted as unknown under key unk
FoldUnknown_RowOnly(unk, tokens) ==
  /\ totals' = totals
  /\ unknown' = AccumulateUnknown(unknown, StringifyKey(unk),
                                  [key |-> unk, tokens |-> tokens, messageCount |-> 1],
                                  tokens)
  /\ UNCHANGED <<byModel, bySession, bySourceProvider, bySourceModel>>
FoldUnknown(unk, tokens) ==
  /\ totals' = [totals EXCEPT !.unknown = addBuckets(@, tokens)]
  /\ unknown' = AccumulateUnknown(unknown, StringifyKey(unk),
                                  [key |-> unk, tokens |-> tokens, messageCount |-> 1],
                                  tokens)
  /\ UNCHANGED <<byModel, bySession, bySourceProvider, bySourceModel>>

\* the record is priced: totals and the four breakdown rows
FoldPriced(msg, key, tokens, costUsd) ==
  LET srcProviderID == OrUnknown(msg.providerID)
      srcModelID == OrUnknown(msg.modelID)
      sid == msg.sessionID
  IN  /\ totals' = [totals EXCEPT !.priced = addBuckets(@, tokens),
                                  !.costUsd = @ + costUsd]
      /\ bySourceModel' =
           Accumulate(bySourceModel, srcProviderID \o <<"\n">> \o srcModelID,
                      [sourceProviderID |-> srcProviderID, sourceModelID |-> srcModelID,
                       tokens |-> tokens, costUsd |-> costUsd, messageCount |-> 1],
                      tokens, costUsd)
      /\ bySourceProvider' =
           Accumulate(bySourceProvider, srcProviderID,
                      [providerID |-> srcProviderID, tokens |-> tokens,
                       costUsd |-> costUsd, messageCount |-> 1],
                      tokens, costUsd)
      /\ byModel' =
           Accumulate(byModel, key.provider \o <<"/">> \o key.model,
                      [key |-> key, tokens |-> tokens, costUsd |-> costUsd,
                       messageCount |-> 1],
                      tokens, costUsd)
      /\ bySession' =
           Accumulate(bySession, sid,
                      [sessionID |-> sid, title |-> SessionTitle(sid), tokens |-> tokens,
                       costUsd |-> costUsd, messageCount |-> 1],
                      tokens, costUsd)
      /\ UNCHANGED unknown

\* one turn of `for (const msg of messages)`
FoldMessage ==
  /\ mode = "stats"
  /\ run > 0 /\ result = <<>>
  /\ msgIndex <= Len(messages)
  /\ LET msg == messages[msgIndex]
         tokens == messageBuckets(msg)
         mapping == mapToOfficialPricingKey(catalog, msg.providerID, msg.modelID)
         priced == calculateCostUsd(catalog, mapping.key.provider, mapping.key.model,
                                    tokens)
     IN  IF ~mapping.ok THEN FoldUnknown(mapping.unknown, tokens)
         ELSE IF ~priced.ok
         THEN FoldUnknown([sourceProviderID |-> OrUnknown(msg.providerID),
                           sourceModelID |-> OrUnknown(msg.modelID),
                           mappedProvider |-> mapping.key.provider,
                           mappedModel |-> mapping.key.model], tokens)
         ELSE FoldPriced(msg, mapping.key, tokens, priced.costUsd)
  /\ msgIndex' = msgIndex + 1
  /\ UNCHANGED <<progVars, messages, catalog, run, result, firstResult>>

\* the loop is over: the rows are sorted and the result is returned
Compose ==
  [totals |-> [priced |-> totals.priced, unknown |-> totals.unknown,
               costUsd |-> totals.costUsd, messageCount |-> Len(messages),
               sessionCount |->
                 Cardinality({messages[j].sessionID : j \in DOMAIN messages})],
   bySourceProvider |-> SortByCost(Values(bySourceProvider)),
   bySourceModel |-> SortByCost(Values(bySourceModel)),
   byModel |-> SortByCost(Values(byModel)),
   bySession |-> SortByCost(Values(bySession)),
   unknown |-> SortByTokens(Values(unknown))]

FinishRun ==
  /\ mode = "stats"
  /\ run > 0 /\ result = <<>>
  /\ msgIndex > Len(messages)
  /\ result' = <<Compose>>
  /\ firstResult' = IF run = 1 THEN <<Compose>> ELSE firstResult
  /\ UNCHANGED <<progVars, messages, catalog, run, msgIndex, mapVars, totals>>

InitStats ==
  /\ mode = "stats"
  /\ now = Now0
  /\ memCache = Null
  /\ loadPromise = FALSE
  /\ objs = <<>>
  /\ file = Missing
  /\ reads = 0
  /\ writesInFlight = EmptyTokens
  /\ proc = <<>>
  /\ calls = 0
  /\ clearsCalled = 0
  /\ clearsReturned = 0
  /\ overlap = FALSE
  /\ lastSet = EmptyTokens
  /\ accounts = <<>>
  /\ concurrency = 0
  /\ force = FALSE
  /\ nextIndex = 1
  /\ results = <<>>
  /\ final = NoFinal
  /\ log = <<>>
  /\ messages \in MessageLists(MaxRecords)
  /\ catalog \in Catalogs
  /\ run = 0
  /\ msgIndex = 0
  /\ byModel = <<>>
  /\ bySession = <<>>
  /\ bySourceProvider = <<>>
  /\ bySourceModel = <<>>
  /\ unknown = <<>>
  /\ totals = NewTotals
  /\ result = <<>>
  /\ firstResult = <<>>
  /\ NoCommands

NextStats == StartRun \/ FoldMessage \/ FinishRun

SpecStats == InitStats /\ [][NextStats]_vars

\* ------------------------------- SpecReport: the token reports over the storage
\* the calendar: days are numbered, a local day lasts MsPerDay
MaxDay == 2
MsPerDay == 2
MaxFiles == 2

\* new Date(y, m - 1, d).getTime()
startOfLocalDayMs(ymd) == ymd * MsPerDay

\* new Date(y, m - 1, d + 1).getTime()
startOfNextLocalDayMs(ymd) == (ymd + 1) * MsPerDay

\* sessionID.startsWith("ses_")
StartsWithSes(sessionID) == sessionID \in {"ses_a", "ses_b", "ses_gone"}

\* the session directories under the message directory, in sorted order
SessionDirs == <<"ses_a", "ses_b">>

\* a message file's JSON: an OpenCodeMessage with its role and time.created
StoredMessage(role, created, sid, modelID, tokens) ==
  [role |-> role, created |-> created, sessionID |-> sid, providerID |-> Str("opencode"),
   modelID |-> modelID, hasTokens |-> TRUE, tokens |-> tokens]

Times == 1 .. ((MaxDay + 1) * MsPerDay + 1)

\* what safeReadJson may return for a file of session sid: <<msg>>, or <<>>
\* (null) for a file it cannot read or parse
StoredFiles(sid) ==
  {<<StoredMessage("assistant", <<t>>, sid, ClaudeOpus45,
                   Tokens(<<200>>, <<100>>, <<>>, <<>>, <<>>))>> : t \in Times}
  \cup {<<StoredMessage("user", <<MsPerDay + 1>>, sid, ClaudeOpus45,
                        Tokens(<<200>>, <<100>>, <<>>, <<>>, <<>>))>>,
        <<StoredMessage("assistant", <<>>, sid, ClaudeOpus45,
                        Tokens(<<200>>, <<100>>, <<>>, <<>>, <<>>))>>,
        <<StoredMessage("assistant", <<MsPerDay + 1>>, sid, <<"unknown-custom-model-v2">>,
                        Tokens(<<40>>, <<2>>, <<>>, <<>>, <<>>))>>,
        <<>>}

RECURSIVE FileLists(_, _)
FileLists(dirs, n) ==
  IF n = 0 THEN {<<>>}
  ELSE LET shorter == FileLists(dirs, n - 1)
       IN  shorter
           \cup {Append(l, [dir |-> d, msg |-> m]) :
                   l \in {x \in shorter : Len(x) = n - 1},
                   d \in {x \in DOMAIN dirs : dirs[x] = "readable"},
                   m \in UNION {StoredFiles(x) : x \in DOMAIN dirs}}

\* the storages: which session directories exist, whether readdir succeeds on
\* them, and the message files in directory order; no directory at all is
\* also what a missing message directory looks like
DirStates ==
  UNION {[S -> {"readable", "unreadable"}] : S \in SUBSET {"ses_a", "ses_b"}}
Storages ==
  UNION {{[dirs |-> dirs, files |-> l] :
            l \in {x \in FileLists(dirs, MaxFiles) :
                     \A j \in DOMAIN x :
                       x[j].msg # <<>> => x[j].msg[1].sessionID = x[j].dir}} :
         dirs \in DirStates}

\* the reader's per-file filter
Kept(msg, params) ==
  /\ msg # <<>>
  /\ msg[1].role = "assistant"
  /\ msg[1].created # <<>>
  /\ ~(params.sinceMs # <<>> /\ msg[1].created[1] < params.sinceMs[1])
  /\ ~(params.untilMs # <<>> /\ msg[1].created[1] > params.untilMs[1])

\* out.sort((a, b) => a.time.created - b.time.created): stable, ascending
RECURSIVE InsertByCreated(_, _)
InsertByCreated(sorted, msg) ==
  IF sorted = <<>> THEN <<msg>>
  ELSE IF sorted[Len(sorted)].created[1] <= msg.created[1] THEN Append(sorted, msg)
  ELSE Append(InsertByCreated(SubSeq(sorted, 1, Len(sorted) - 1), msg),
              sorted[Len(sorted)])
RECURSIVE SortByCreated(_)
SortByCreated(out) ==
  IF out = <<>> THEN <<>>
  ELSE InsertByCreated(SortByCreated(SubSeq(out, 1, Len(out) - 1)), out[Len(out)])

\* the kept messages of one session directory, in directory order
RECURSIVE KeptOf(_, _, _)
KeptOf(files, sid, params) ==
  IF files = <<>> THEN <<>>
  ELSE LET f == files[1]
           rest == KeptOf(Tail(files), sid, params)
       IN  IF f.dir = sid /\ Kept(f.msg, params) THEN f.msg \o rest ELSE rest

\* iterAssistantMessages: every readable session directory, in sorted order
RECURSIVE KeptOfAll(_, _, _)
KeptOfAll(store, sids, params) ==
  IF sids = <<>> THEN <<>>
  ELSE (IF sids[1] \in DOMAIN store.dirs /\ store.dirs[sids[1]] = "readable"
        THEN KeptOf(store.files, sids[1], params) ELSE <<>>)
       \o KeptOfAll(store, Tail(sids), params)
iterAssistantMessages(store, params) ==
  [ok |-> TRUE, messages |-> SortByCreated(KeptOfAll(store, SessionDirs, params))]

\* iterAssistantMessagesForSession: throws when the id is malformed, the
\* directory is missing or readdir fails
SessionNotFoundError == [ok |-> FALSE, error |-> "SessionNotFoundError"]
iterAssistantMessagesForSession_EmptyOnMissing(store, sessionID, params) ==
  IF ~StartsWithSes(sessionID) THEN SessionNotFoundError
  ELSE IF sessionID \notin DOMAIN store.dirs THEN [ok |-> TRUE, messages |-> <<>>]
  ELSE IF store.dirs[sessionID] # "readable" THEN SessionNotFoundError
  ELSE [ok |-> TRUE, messages |-> SortByCreated(KeptOf(store.files, sessionID, params))]
iterAssistantMessagesForSession(store, sessionID, params) ==
  IF ~StartsWithSes(sessionID) THEN SessionNotFoundError
  ELSE IF sessionID \notin DOMAIN store.dirs THEN SessionNotFoundError
  ELSE IF store.dirs[sessionID] # "readable" THEN SessionNotFoundError
  ELSE [ok |-> TRUE, messages |-> SortByCreated(KeptOf(store.files, sessionID, params))]

\* `if (params.sessionID)`: a string that is not empty
HasSessionFilter(params) == params.sessionID # <<>> /\ params.sessionID[1] # ""

\* the variables of the program's other parts, and those of the aggregation
baseVars == <<mode, now, cacheVars, proc, histVars, lastSet, orchVars, quotaVars>>
aggVars == <<messages, catalog, run, msgIndex, mapVars, totals, result, firstResult>>

\* aggregateUsage up to its loop: the messages are read with or without the
\* session filter; a reader's error leaves the call, otherwise the maps and the
\* totals are created
AggregateUsage(params) ==
  LET read == IF HasSessionFilter(params)
              THEN iterAssistantMessagesForSession(storage, params.sessionID[1], params)
              ELSE iterAssistantMessages(storage, params)
  IN  /\ request' = <<params>>
      /\ IF read.ok
         THEN /\ messages' = read.messages
              /\ run' = 1
              /\ msgIndex' = 1
              /\ byModel' = NewMap(byModel)
              /\ bySession' = NewMap(bySession)
              /\ bySourceProvider' = NewMap(bySourceProvider)
              /\ bySourceModel' = NewMap(bySourceModel)
              /\ unknown' = NewMap(unknown)
              /\ totals' = NewTotals
              /\ thrown' = <<>>
         ELSE /\ thrown' = <<read.error>>
              /\ UNCHANGED <<messages, run, msgIndex, mapVars, totals>>
      /\ UNCHANGED <<baseVars, storage, command, catalog, result, firstResult>>

Params(sinceMs, untilMs, sessionID) ==
  [sinceMs |-> sinceMs, untilMs |-> untilMs, sessionID |-> sessionID]

\* a command was given and is not served yet
Waiting == mode = "stats" /\ command # <<>> /\ request = <<>> /\ ~command[1].rejected

\* /tokens_between START END and the quota_between tool: a range that ends
\* before it starts is answered with an error message
TokensBetween ==
  /\ Waiting
  /\ command[1].kind = "between"
  /\ LET startYmd == command[1].startYmd
         endYmd == command[1].endYmd
     IN  IF startOfLocalDayMs(endYmd) < startOfLocalDayMs(startYmd)
         THEN /\ command' = <<[command[1] EXCEPT !.rejected = TRUE]>>
              /\ UNCHANGED <<baseVars, aggVars, storage, request, thrown>>
         ELSE AggregateUsage(Params(<<startOfLocalDayMs(startYmd)>>,
                                    <<startOfNextLocalDayMs(endYmd)>>, <<>>))

\* /tokens_session and the quota_session tool: filterSessionID is the session
TokensSession ==
  /\ Waiting
  /\ command[1].kind = "session"
  /\ AggregateUsage(Params(<<>>, <<>>, <<command[1].sessionID>>))

\* aggregateUsage called with a window and a session filter
CallAggregateUsage ==
  /\ Waiting
  /\ command[1].kind = "aggregate"
  /\ AggregateUsage(command[1].params)

Commands ==
  {[kind |-> "between", rejected |-> FALSE, startYmd |-> s, endYmd |-> e] :
     s \in 1 .. MaxDay, e \in 1 .. MaxDay}
  \cup {[kind |-> "session", rejected |-> FALSE, sessionID |-> sid] :
          sid \in {"ses_a", "ses_gone", "bad", ""}}
  \cup {[kind |-> "aggregate", rejected |-> FALSE, params |-> Params(s, u, <<sid>>)] :
          s \in {<<>>, <<startOfLocalDayMs(MaxDay)>>},
          u \in {<<>>, <<startOfLocalDayMs(MaxDay)>>},
          sid \in {"ses_a", "ses_b"}}

InitReport ==
  /\ mode = "stats"
  /\ now = Now0
  /\ memCache = Null
  /\ loadPromise = FALSE
  /\ objs = <<>>
  /\ file = Missing
  /\ reads = 0
  /\ writesInFlight = EmptyTokens
  /\ proc = <<>>
  /\ calls = 0
  /\ clearsCalled = 0
  /\ clearsReturned = 0
  /\ overlap = FALSE
  /\ lastSet = EmptyTokens
  /\ accounts = <<>>
  /\ concurrency = 0
  /\ force = FALSE
  /\ nextIndex = 1
  /\ results = <<>>
  /\ final = NoFinal
  /\ log = <<>>
  /\ messages = <<>>
  /\ catalog = CatalogPrimaries
  /\ run = 0
  /\ msgIndex = 0
  /\ byModel = <<>>
  /\ bySession = <<>>
  /\ bySourceProvider = <<>>
  /\ bySourceModel = <<>>
  /\ unknown = <<>>
  /\ totals = NewTotals
  /\ result = <<>>
  /\ firstResult = <<>>
  /\ storage \in Storages
  /\ command \in {<<c>> : c \in Commands}
  /\ request = <<>>
  /\ thrown = <<>>
  /\ quotaCache = <<>>
  /\ invocations = <<>>
  /\ fetches = <<>>

NextReport ==
  TokensBetween \/ TokensSession \/ CallAggregateUsage \/ FoldMessage \/ FinishRun

SpecReport == InitReport /\ [][NextReport]_vars

\* ----------------------------------- SpecQuota: the /quota command and its cache
MaxInvocations == 4
MaxQuotaTicks == 4

\* config.minIntervalMs, here two ticks of the clock
minIntervalMs == 2 * TickMs

\* the message the k-th provider fetch renders
QuotaMessage(k) == <<"quota as of fetch ", k>>

\* `quotaCache = { message: "", timestamp: 0 }`
NewQuotaCache == [message |-> <<>>, timestamp |-> 0, inFlight |-> 0]

\* `if (msg) { quotaCache.message = msg; quotaCache.timestamp = Date.now(); }`
Stamp(cache, msg, fetched) ==
  IF msg # <<>> THEN [cache EXCEPT !.message = msg, !.timestamp = now] ELSE cache

\* a /quota invocation up to its await: it answers from the cache, joins the
\* fetch in flight or starts one
Invoke ==
  /\ mode = "quota"
  /\ Len(invocations) < MaxInvocations
  /\ LET cache == IF quotaCache = <<>> THEN NewQuotaCache ELSE quotaCache[1]
         cached == IF cache.timestamp # 0 /\ now - cache.timestamp < minIntervalMs
                   THEN cache.message ELSE <<>>
         settled == Cardinality({k \in DOMAIN fetches : fetches[k].settled})
         inv == [started |-> now, after |-> settled, cached |-> cached # <<>>,
                 fetch |-> 0, began |-> FALSE, at |-> "done", msg |-> cached]
     IN  IF cached # <<>>
         THEN /\ quotaCache' = <<Stamp(cache, cached, FALSE)>>
              /\ invocations' = Append(invocations, inv)
              /\ fetches' = fetches
         ELSE IF cache.inFlight # 0
         THEN /\ quotaCache' = <<cache>>
              /\ invocations' = Append(invocations,
                                       [inv EXCEPT !.fetch = cache.inFlight,
                                                   !.at = "awaiting"])
              /\ fetches' = fetches
         ELSE /\ quotaCache' = <<[cache EXCEPT !.inFlight = Len(fetches) + 1]>>
              /\ invocations' = Append(invocations,
                                       [inv EXCEPT !.fetch = Len(fetches) + 1,
                                                   !.began = TRUE, !.at = "awaiting"])
              /\ fetches' = Append(fetches, [start |-> now, settled |-> FALSE,
                                             end |-> 0, msg |-> <<>>])
  /\ UNCHANGED <<mode, now, cacheVars, proc, histVars, lastSet, orchVars, aggVars,
                 reportVars>>

\* fetchQuotaCommandMessage settles with a message, with null or by throwing:
\* inFlight is cleared and every invocation awaiting it resumes
FetchOutcomes == {"message", "null", "throws"}
FetchSettles(outcome) ==
  /\ mode = "quota"
  /\ quotaCache # <<>> /\ quotaCache[1].inFlight # 0
  /\ LET k == quotaCache[1].inFlight
         msg == IF outcome = "message" THEN QuotaMessage(k) ELSE <<>>
         cleared == [quotaCache[1] EXCEPT !.inFlight = 0]
     IN  /\ fetches' = [fetches EXCEPT ![k] = [@ EXCEPT !.settled = TRUE, !.end = now,
                                                        !.msg = msg]]
         /\ quotaCache' = <<IF outcome = "throws" THEN cleared
                            ELSE Stamp(cleared, msg, TRUE)>>
         /\ invocations' =
              [i \in DOMAIN invocations |->
                 IF invocations[i].at = "awaiting"
                 THEN [invocations[i] EXCEPT
                         !.at = IF outcome = "throws" THEN "threw" ELSE "done",
                         !.msg = msg]
                 ELSE invocations[i]]
  /\ UNCHANGED <<mode, now, cacheVars, proc, histVars, lastSet, orchVars, aggVars,
                 reportVars>>

\* time passes
Elapse ==
  /\ mode = "quota"
  /\ now < Now0 + MaxQuotaTicks * TickMs
  /\ now' = now + TickMs
  /\ UNCHANGED <<mode, cacheVars, proc, histVars, lastSet, orchVars, aggVars,
                 reportVars, quotaVars>>

InitQuota ==
  /\ mode = "quota"
  /\ now = Now0
  /\ memCache = Null
  /\ loadPromise = FALSE
  /\ objs = <<>>
  /\ file = Missing
  /\ reads = 0
  /\ writesInFlight = EmptyTokens
  /\ proc = <<>>
  /\ calls = 0
  /\ clearsCalled = 0
  /\ clearsReturned = 0
  /\ overlap = FALSE
  /\ lastSet = EmptyTokens
  /\ accounts = <<>>
  /\ concurrency = 0
  /\ force = FALSE
  /\ nextIndex = 1
  /\ results = <<>>
  /\ final = NoFinal
  /\ log = <<>>
  /\ NoStats

NextQuota == Invoke \/ (\E outcome \in FetchOutcomes : FetchSettles(outcome)) \/ Elapse

SpecQuota == InitQuota /\ [][NextQuota]_vars

\* ------------------------------------------------------ claims on the cache
\* ------------------------------------- Spec: the two orchestrator entry points
\* a cache file left by an earlier process: account 1's token, valid for a
\* while, and account 2's, about to expire
StoredTokens ==
  [kind |-> "json", isObject |-> TRUE, version |-> CACHE_VERSION,
   tokensIsObject |-> TRUE,
   tokens |->
     LET old(i, life, email) ==
           [accessToken |-> AccessTokens[i][4], expiresAt |-> Now0 + life,
            projectId |-> ProjectIds[i], email |-> email]
     IN  Put(Put(Put(EmptyTokens,
           ApiKey(1), old(1, 5 * TickMs, Emails[1])),
           ApiKey(2), old(2, TickMs, Undefined)),
           makeAccountCacheKey(RefreshTokens[2], ProjectIds[2], Unknown),
           old(2, TickMs, Unknown))]

Roster == <<1, 2, 3, 1, 2>>
Rosters == {SubSeq(Roster, from, from + m - 1) : from \in 1..3, m \in 1..MaxAccounts}

Init ==
  /\ mode \in {"query", "refreshAll"}
  /\ now = Now0
  /\ memCache = Null
  /\ loadPromise = FALSE
  /\ objs = <<>>
  /\ file \in {Missing, StoredTokens}
  /\ reads = 0
  /\ writesInFlight = EmptyTokens
  /\ proc = <<>>
  /\ calls = 0
  /\ clearsCalled = 0
  /\ clearsReturned = 0
  /\ overlap = FALSE
  /\ lastSet = loadFromDisk(file).tokens
  /\ accounts \in Rosters
  /\ concurrency \in {1, GOOGLE_ACCOUNTS_CONCURRENCY}
  /\ force \in (IF mode = "query" THEN {FALSE} ELSE BOOLEAN)
  /\ nextIndex = 1
  /\ results = [i \in 1..Len(accounts) |-> NoResult]
  /\ final = NoFinal
  /\ log = [i \in 1..Len(accounts) |-> <<>>]
  /\ NoStats

Next ==
  \/ Begin
  \/ \E p \in 1..MaxAccounts : WorkerLoop(p)
  \/ \E p \in 1..MaxAccounts, reply \in RefreshReplies : RefreshResponds(p, reply)
  \/ \E p \in 1..MaxAccounts, reply \in QuotaReplies : QuotaResponds(p, reply)
  \/ LoadSettles
  \/ \E p \in DOMAIN proc : GetResumes(p)
  \/ \E p \in DOMAIN proc : SetResumes(p)
  \/ \E p \in DOMAIN proc, ok \in BOOLEAN : MkdirSettles(p, ok)
  \/ \E p \in DOMAIN proc, ok \in BOOLEAN, torn \in BOOLEAN : WriteSettles(p, ok, torn)

Spec == Init /\ [][Next]_vars


\* --------------- SpecRefresh: the entry points with one worker, against every
\* kind of answer of the token endpoint
InitRefresh == Init /\ concurrency = 1

NextRefresh ==
  \/ Begin
  \/ \E p \in 1..MaxAccounts : WorkerLoop(p)
  \/ \E p \in 1..MaxAccounts, reply \in AllRefreshReplies : RefreshResponds(p, reply)
  \/ \E p \in 1..MaxAccounts, reply \in QuotaReplies : QuotaResponds(p, reply)
  \/ LoadSettles
  \/ \E p \in DOMAIN proc : GetResumes(p)
  \/ \E p \in DOMAIN proc : SetResumes(p)
  \/ \E p \in DOMAIN proc, ok \in BOOLEAN : MkdirSettles(p, ok)
  \/ \E p \in DOMAIN proc, ok \in BOOLEAN, torn \in BOOLEAN : WriteSettles(p, ok, torn)

SpecRefresh == InitRefresh /\ [][NextRefresh]_vars

Returned(p, op) == proc[p].at = "idle" /\ proc[p].op = op /\ proc[p].outcome = "ok"

FileTokens == loadFromDisk(file).tokens

\* C5: when setCachedAccessToken(k1, e1) and setCachedAccessToken(k2, e2),
\* k1 # k2, are the only calls made and both have returned, memCache holds e1
\* under k1 and e2 under k2, and so does the cache file: no update is lost.
C5_NoLostUpdate ==
  \A p, q \in DOMAIN proc :
    (/\ p # q /\ Returned(p, "set") /\ Returned(q, "set")
     /\ proc[p].key # proc[q].key
     /\ calls = 2)
    => /\ memCache # Null
       /\ \A r \in {p, q} :
            /\ proc[r].key \in DOMAIN objs[memCache].tokens
            /\ objs[memCache].tokens[proc[r].key] = proc[r].entry
            /\ proc[r].key \in DOMAIN FileTokens
            /\ FileTokens[proc[r].key] = proc[r].entry

\* C6: the cache file is read at most once, exactly once when a get or set
\* has initialised the cache, and (get/set callers only: no clear has been
\* called) every caller resuming from ensureLoaded is handed the one object
\* memCache names; callers still awaiting the load all await the same promise.
C6_SingleFlightLoad ==
  /\ reads <= 1
  /\ clearsCalled = 0 =>
       /\ (memCache # Null \/ loadPromise) => reads = 1
       /\ \A p \in DOMAIN proc :
            proc[p].cpc = "ensure" =>
              proc[p].ref = (IF memCache = Null THEN Pending ELSE memCache)

C6_Witness ==
  /\ clearsCalled = 0 /\ reads = 1 /\ ~loadPromise /\ memCache # Null
  /\ \A p \in 1..2 : proc[p].cpc = "ensure" /\ proc[p].ref = memCache

\* C7: a get that started after a clearGoogleTokenCache() returned never
\* returns an entry put into the cache (set or loaded) before that clear reset
\* it, and the file text written by a clear holds no such entry.
C7_ClearForgets ==
  /\ \A p \in DOMAIN proc :
       (Returned(p, "get") /\ proc[p].hit # <<>>) => proc[p].ep >= proc[p].cr
  /\ \A p \in DOMAIN proc :
       (proc[p].op = "clear" /\ proc[p].cpc = "write") =>
         \A k \in DOMAIN writesInFlight[p].content.tokens :
            writesInFlight[p].epoch[k] >= proc[p].cr

\* C8: with the calls made one after the other, a get returns the entry most
\* recently stored under its key since the last clear exactly if that entry's
\* expiresAt > now + skewMs, and a miss otherwise; it never throws.
C8_GetReturnsLatestUnexpired ==
  \A p \in DOMAIN proc :
    (proc[p].at = "idle" /\ proc[p].op = "get" /\ ~overlap) =>
       /\ proc[p].outcome = "ok"
       /\ proc[p].hit = proc[p].want

\* a clear, then a set, then a get with skewMs = 0 that returns the entry set
C8_Witness ==
  /\ ~overlap /\ clearsReturned = 1 /\ calls = 3
  /\ \E p \in DOMAIN proc :
       /\ Returned(p, "get") /\ proc[p].skew = 0
       /\ proc[p].key \in DOMAIN lastSet
       /\ proc[p].hit = <<lastSet[proc[p].key]>>

\* ------------- SpecWarm: a refresh-all run, then a quota query in the process
\* queryGoogleQuota is called after refreshGoogleTokensForAllAccounts has
\* returned: the same accounts file, the cache module's state as it was left
QueryAfterRefreshAll ==
  /\ mode = "refreshAll"
  /\ final.state = "returned"
  /\ mode' = "query"
  /\ force' = FALSE
  /\ proc' = <<>>
  /\ nextIndex' = 1
  /\ results' = [i \in 1..Len(accounts) |-> NoResult]
  /\ final' = NoFinal
  /\ log' = [i \in 1..Len(accounts) |-> <<>>]
  /\ UNCHANGED <<statVars, now, cacheVars, histVars, lastSet, accounts, concurrency>>

InitWarm ==
  /\ Init
  /\ mode = "refreshAll"
  /\ file = Missing
  /\ concurrency = GOOGLE_ACCOUNTS_CONCURRENCY

NextWarm == Next \/ QueryAfterRefreshAll

SpecWarm == InitWarm /\ [][NextWarm]_vars

\* ----------------------------------------------- claims on the orchestrator
\* workers that are inside an account's task
InFlight == {p \in DOMAIN proc : proc[p].at \notin {"ready", "exit", "rejected"}}

\* C1: with limit N >= 1 and M accounts mapWithConcurrency starts exactly
\* min(N, M) workers, and at no time are more than N account tasks in flight
\* (no two of them on the same account)
C1_BoundedConcurrency ==
  mode # "cache" =>
    /\ proc # <<>> =>
         Len(proc) = (IF concurrency < Len(accounts) THEN concurrency ELSE Len(accounts))
    /\ Cardinality(InFlight) <= concurrency
    /\ Cardinality({proc[p].idx : p \in InFlight}) = Cardinality(InFlight)
    /\ \A p \in InFlight : proc[p].idx \in 1..Len(accounts)

\* more accounts than the limit: the single worker is on the second account
C1_Witness ==
  /\ mode = "query"
  /\ Len(accounts) > concurrency
  /\ Cardinality(InFlight) = concurrency
  /\ \E p \in InFlight : proc[p].idx = 2 /\ proc[p].at = "quota1"
  /\ results[1].done

Pos(evs, e) == {j \in DOMAIN evs : evs[j].e = e}
Between(set, a, b) == {k \in set : a < k /\ k < b}
Surfaced(i) ==
  /\ results[i].done /\ ~results[i].success /\ results[i].error # <<>>
  /\ final.state = "returned" =>
       \E k \in DOMAIN final.errors :
         final.errors[k] = [email |-> results[i].accountEmail, error |-> results[i].error]

\* C2: per account of one queryGoogleQuota call, a second quota request is
\* issued only after the first failed with 401 or 403, with exactly one token
\* refresh and no cache lookup in between; there are never more than two quota
\* requests; a failed second request, and a first request failing in any other
\* way, ends the task with its error surfaced; 403, refresh, 200 is a success
C2_SingleAuthRetry ==
  mode = "query" =>
    \A i \in DOMAIN log :
      LET evs == log[i]
          quotas == Pos(evs, "quota")
          replies == Pos(evs, "reply")
          IsFirst(j) == Between(quotas, 0, j) = {j - 1} /\ j - 1 \in quotas
      IN  /\ Cardinality(quotas) <= 2
          /\ \A j1 \in quotas, j2 \in quotas :
               j1 < j2 =>
                 /\ j1 + 1 \in replies /\ evs[j1 + 1].v \in {"401", "403"}
                 /\ Cardinality(Between(Pos(evs, "refresh"), j1, j2)) = 1
                 /\ Between(Pos(evs, "get"), j1, j2) = {}
          /\ \A j \in replies :
               (evs[j].v # "200" /\ ~(IsFirst(j) /\ evs[j].v \in {"401", "403"}))
                 => j = Len(evs) /\ Surfaced(i)
          /\ \A j1 \in replies, j2 \in replies :
               (j1 < j2 /\ evs[j1].v = "403" /\ evs[j2].v = "200")
                 => results[i].done /\ results[i].success

\* the call has returned; one account went 403, refresh, 200
C2_Witness ==
  /\ mode = "query"
  /\ final.state = "returned"
  /\ \E i \in DOMAIN log :
       /\ Cardinality(Pos(log[i], "quota")) = 2
       /\ \E j \in Pos(log[i], "reply") : log[i][j].v = "403"
       /\ log[i][Len(log[i])] = Ev("reply", "200")
       /\ results[i].success

\* C3: whatever fails inside one account's task, both entry points complete
\* with a result holding an outcome for every account; the call never rejects
C3_NeverRejects ==
  mode # "cache" =>
    /\ final.state # "rejected"
    /\ final.state = "returned" => \A i \in DOMAIN results : results[i].done

AllFailed == \A i \in DOMAIN results : results[i].done /\ ~results[i].success
                                       /\ Truthy(results[i].error)
FailedErrors == Errors(results, 1)

\* C4: queryGoogleQuota returns a success carrying the models and the failed
\* accounts' errors when some account contributes a model, and an overall
\* failure (success = false) with the per-account errors when every account fails
C4_TotalFailureIsFailure ==
  (mode = "query" /\ final.state = "returned") =>
    /\ AllModels(results, 1) # <<>> =>
         final.success /\ final.models = AllModels(results, 1)
                       /\ final.errors = FailedErrors
    /\ AllFailed => ~final.success /\ final.errors = FailedErrors

\* C4 as amended: with a model from some account the result is a success with
\* the models and the failed accounts' errors; when no account contributes a
\* model but some failed with an error the result is still success = true, with
\* no models and those errors; success = false ("No quota data available", no
\* errors attached) only when there is neither a model nor an error
C4_Aggregate ==
  (mode = "query" /\ final.state = "returned") =>
    /\ AllModels(results, 1) # <<>> =>
         final.success /\ final.models = AllModels(results, 1)
                       /\ final.errors = FailedErrors
    /\ (AllModels(results, 1) = <<>> /\ FailedErrors # <<>>) =>
         final.success /\ final.models = <<>> /\ final.errors = FailedErrors
    /\ (AllModels(results, 1) = <<>> /\ FailedErrors = <<>>) =>
         ~final.success /\ final.error = <<"No quota data available">>
                        /\ final.errors = <<>>
    /\ AllFailed => Len(final.errors) = Len(results)

\* both accounts failed
C4_Witness ==
  /\ mode = "query" /\ final.state = "returned"
  /\ Len(results) = 2 /\ AllFailed
  /\ final.success /\ final.models = <<>> /\ Len(final.errors) = 2

\* the token the stored cache file holds for account i
StoredToken(i) == StoredTokens.tokens[TaskKey(Account(accounts[i]))].accessToken
First(set) == CHOOSE j \in set : \A k \in set : j <= k

\* C9: with force unset, a cache entry with expiresAt > now + skewMs (skewMs is
\* 120000 by default) means no refresh request is issued and the cached token
\* is used; on a miss (no entry, or one expiring within the skew window) or with
\* force set (no cache lookup) exactly one refresh request is issued, before the
\* quota request that uses its token
C9_CacheBeforeRefresh ==
  mode # "cache" =>
    /\ \A p \in DOMAIN proc : proc[p].op = "get" => proc[p].skew = 120000
    /\ \A i \in DOMAIN log :
         LET evs == log[i]
             gets == Pos(evs, "get")
             refreshes == Pos(evs, "refresh")
             quotas == Pos(evs, "quota")
             before == IF quotas = {} THEN refreshes
                       ELSE Between(refreshes, 0, First(quotas))
             forced == mode = "refreshAll" /\ force
         IN  /\ (forced /\ evs # <<>>) => gets = {} /\ evs[1].e = "refresh"
             /\ (~forced /\ evs # <<>>) => gets = {1}
             /\ (gets = {1} /\ evs[1].v = "fresh") =>
                  /\ before = {}
                  /\ quotas # {} => First(quotas) = 2 /\ evs[2].v = StoredToken(i)
                  /\ mode = "refreshAll" =>
                       Len(evs) = 1 /\ results[i].done /\ results[i].success
             /\ ((gets = {1} /\ evs[1].v = "stale") \/ (forced /\ evs # <<>>)) =>
                  /\ Cardinality(before) = 1
                  /\ quotas # {} =>
                       \E r \in Pos(evs, "refreshed") :
                         /\ First(refreshes) < r /\ r < First(quotas)
                         /\ evs[r].v = evs[First(quotas)].v
             /\ mode = "refreshAll" => Cardinality(refreshes) <= 1

\* account 1's stored token is valid and used as it is; account 2's expires at
\* now + 60000, inside the window: it is refreshed and the new token used
C9_Witness ==
  /\ mode = "query" /\ accounts = <<1, 2>>
  /\ now = Now0
  /\ StoredTokens.tokens[TaskKey(Account(2))].expiresAt = now + 60000
  /\ Len(log[1]) >= 2 /\ log[1][1] = Ev("get", "fresh")
  /\ log[1][2] = Ev("quota", AccessTokens[1][4])
  /\ Len(log[2]) >= 5 /\ log[2][1] = Ev("get", "stale")
  /\ log[2][2].e = "refresh"
  /\ log[2][5] = Ev("quota", AccessTokens[2][1])

Secrets == {RefreshTokens[i] : i \in DOMAIN RefreshTokens}
Fragments(str) == {str[j] : j \in DOMAIN str}
Digests == {DigestTable[i][j] : i \in DOMAIN DigestTable, j \in 1..2}

KeyClean(key, e) ==
  /\ Fragments(key) \cap Secrets = {}
  /\ e.accessToken \notin Fragments(key)
  /\ Len(key) >= 4
  /\ key[Len(key) - 3] = "::" /\ key[Len(key) - 1] = "::"
  /\ key[Len(key) - 2] = e.projectId
  /\ key[Len(key)] \in Digests
  /\ SubSeq(key, 1, Len(key) - 4) =
       ToLowerCase(Trim(IF e.email = Undefined THEN <<>> ELSE e.email))

ValueClean(e) ==
  /\ DOMAIN e = {"accessToken", "expiresAt", "projectId", "email"}
  /\ e.accessToken \notin Secrets
  /\ e.projectId \notin Secrets
  /\ Fragments(e.email) \cap Secrets = {}

TokensClean(tokens) ==
  \A k \in DOMAIN tokens : KeyClean(k, tokens[k]) /\ ValueClean(tokens[k])

\* C10: no refresh token appears in a cache key or in a value held in memory
\* or written to the cache file; a key is the normalized email, the project id
\* and the truncated digest, and does not contain the access token; a value has
\* the access token, the expiry, the project id and the email only
C10_NoRefreshTokenAtRest ==
  /\ \A o \in DOMAIN objs : TokensClean(objs[o].tokens)
  /\ file.kind = "json" => TokensClean(file.tokens)
  /\ \A p \in DOMAIN writesInFlight : TokensClean(writesInFlight[p].content.tokens)
  /\ \A p \in DOMAIN proc :
       proc[p].key # <<>> => Fragments(proc[p].key) \cap Secrets = {}

\* the file holds a token that this call obtained and stored
C10_Witness ==
  /\ mode = "query"
  /\ file.kind = "json"
  /\ \E k \in DOMAIN file.tokens :
       /\ file.tokens[k].accessToken = AccessTokens[1][1]
       /\ k = TaskKey(Account(1))
       /\ Len(k) > 4

\* ------------------------------------------ claims on the refresh's errors
Revoked == <<"Token revoked">>

\* C11: a refresh answered with error invalid_grant, and no other answer,
\* gives the account the error "Token revoked"; the account's task ends there,
\* and the entry point returns that error for the account (failures of
\* refreshGoogleTokensForAllAccounts, errors of queryGoogleQuota), also when
\* the refresh is the one of the auth retry
C11_RevokedIsDistinguished ==
  /\ \A reply \in AllRefreshReplies :
       (refreshAccessToken(reply, "t").error = Revoked) <=> (reply.body = "invalid_grant")
  /\ mode # "cache" =>
       \A i \in DOMAIN log :
         LET evs == log[i]
             revoked == {r \in Pos(evs, "refreshed") : evs[r].v = "invalid_grant"}
         IN  /\ revoked # {} =>
                  /\ revoked = {Len(evs)}
                  /\ results[i].done /\ ~results[i].success
                  /\ results[i].error = Revoked
                  /\ final.state = "returned" =>
                       \E k \in DOMAIN final.errors :
                         final.errors[k] = [email |-> results[i].accountEmail,
                                            error |-> Revoked]
             /\ (results[i].done /\ results[i].error = Revoked) => revoked # {}

\* queryGoogleQuota has returned; an account's auth-retry refresh was revoked
C11_Witness ==
  /\ mode = "query" /\ final.state = "returned"
  /\ \E i \in DOMAIN log :
       /\ Cardinality(Pos(log[i], "refresh")) = 2
       /\ Cardinality(Pos(log[i], "quota")) = 1
       /\ log[i][Len(log[i])] = Ev("refreshed", "invalid_grant")
       /\ \E k \in DOMAIN final.errors : final.errors[k].error = Revoked

\* --------------------------------------------------- claims on the load
BadFile(f) ==
  f.kind # "json" \/ ~f.isObject \/ f.version # 1 \/ ~f.tokensIsObject

\* the first call made is still the only one, so the file is the one found
FirstCall(p, op) == calls = 1 /\ proc[p].called /\ proc[p].op = op

\* C12: with a cache file that is missing, unparseable, not an object, of a
\* version other than 1 or without a tokens object, the load gives an empty
\* cache: the get that follows returns a miss (and does not throw), the set
\* that follows leaves exactly its entry in the cache and in what it writes
C12_BadFileIsEmptyCache ==
  mode = "cache" =>
    \A p \in DOMAIN proc :
      /\ (FirstCall(p, "get") /\ proc[p].at = "idle" /\ BadFile(file)) =>
           proc[p].outcome = "ok" /\ proc[p].hit = <<>>
      /\ (FirstCall(p, "set") /\ proc[p].cpc \in {"mkdir", "write"} /\ BadFile(file)) =>
           /\ memCache # Null
           /\ DOMAIN objs[memCache].tokens = {proc[p].key}
           /\ objs[memCache].tokens[proc[p].key] = proc[p].entry
           /\ proc[p].cpc = "write" =>
                /\ writesInFlight[p].content.kind = "json"
                /\ writesInFlight[p].content.version = 1
                /\ DOMAIN writesInFlight[p].content.tokens = {proc[p].key}
      /\ (FirstCall(p, "set") /\ proc[p].at = "idle" /\ proc[p].outcome = "ok") =>
           /\ ~BadFile(file)
           /\ proc[p].key \in DOMAIN file.tokens
           /\ file.tokens[proc[p].key] = proc[p].entry

\* the file is of another version and holds a valid entry for the key; the get
\* returned a miss
C12_Witness ==
  /\ mode = "cache"
  /\ file.kind = "json" /\ file.isObject /\ file.tokensIsObject /\ file.version # 1
  /\ \E p \in DOMAIN proc :
       /\ FirstCall(p, "get") /\ proc[p].at = "idle"
       /\ proc[p].key \in DOMAIN file.tokens
       /\ file.tokens[proc[p].key].expiresAt > now + proc[p].skew
       /\ proc[p].hit = <<>>

\* ------------------------------------------------------ claims on the usage
\* the sum, field by field, of the buckets of the first n messages
RECURSIVE SumField(_, _, _)
SumField(list, n, f) ==
  IF n = 0 THEN 0 ELSE SumField(list, n - 1, f) + messageBuckets(list[n])[f]
BucketsEqual(a, b) == \A j \in DOMAIN Fields : a[Fields[j]] = b[Fields[j]]
PlusField(a, b, f) == a[f] + b[f]

RECURSIVE CountSum(_, _)
CountSum(map, n) == IF n = 0 THEN 0 ELSE CountSum(map, n - 1) + map[n].row.messageCount

Folded == IF result # <<>> THEN Len(messages) ELSE msgIndex - 1

\* C13: while and after the records are folded, totals.priced + totals.unknown
\* is, field by field, the sum of the buckets of the records folded so far,
\* each record is counted in exactly one of a priced row and an unknown row,
\* and the result's messageCount is the number of records
C13_Partition ==
  (mode = "stats" /\ run > 0) =>
    /\ \A j \in DOMAIN Fields :
         PlusField(totals.priced, totals.unknown, Fields[j])
           = SumField(messages, Folded, Fields[j])
    /\ CountSum(byModel, Len(byModel)) + CountSum(unknown, Len(unknown)) = Folded
    /\ result # <<>> =>
         /\ result[1].totals.messageCount = Len(messages)
         /\ \A j \in DOMAIN Fields :
              PlusField(result[1].totals.priced, result[1].totals.unknown, Fields[j])
                = SumField(messages, Len(messages), Fields[j])

\* a result over three records, some priced and some unknown, both with tokens
C13_Witness ==
  /\ mode = "stats" /\ result # <<>>
  /\ Len(messages) = MaxRecords
  /\ TokenCount(result[1].totals.priced) > 0
  /\ TokenCount(result[1].totals.unknown) > 0
  /\ result[1].totals.priced.cache_read > 0

\* the catalog prices the record: it maps to a key that the catalog holds
Mapping(msg) == mapToOfficialPricingKey(catalog, msg.providerID, msg.modelID)
Mappable(msg) == Mapping(msg).ok
CostComputable(msg) ==
  /\ Mappable(msg)
  /\ <<Mapping(msg).key.provider, Mapping(msg).key.model>> \in DOMAIN catalog
Defined(x) == x \notin {Absent, Undefined}

\* the rows of the map after a step that the step created or changed
Touched(before, after) ==
  {j \in DOMAIN after : j \notin DOMAIN before \/ after[j] # before[j]}

\* C14: folding a record creates or increments an unknown row exactly when the
\* record has no cost (it cannot be mapped, or the catalog lacks its key); it
\* is then one row, whose key has mappedProvider defined exactly when the
\* record was mapped, so that no row serves records of both kinds
C14_UnknownRows ==
  [][(mode = "stats" /\ run' = run /\ msgIndex' = msgIndex + 1) =>
       LET msg == messages[msgIndex]
           rows == Touched(unknown, unknown')
       IN  /\ (rows # {}) <=> ~CostComputable(msg)
           /\ CostComputable(msg) => Touched(byModel, byModel') # {}
           /\ ~CostComputable(msg) =>
                /\ Cardinality(rows) = 1
                /\ byModel' = byModel
                /\ CountSum(unknown', Len(unknown'))
                     = CountSum(unknown, Len(unknown)) + 1
                /\ \A j \in rows :
                     /\ unknown'[j].k = StringifyKey(unknown'[j].row.key)
                     /\ Defined(unknown'[j].row.key.mappedProvider) <=> Mappable(msg)
                     /\ unknown'[j].row.key.sourceModelID = OrUnknown(msg.modelID)]_vars

\* the unknown list holds a row of a record that no heuristic maps and a row of
\* a record that was mapped to a key the catalog lacks
C14_Witness ==
  /\ mode = "stats" /\ result # <<>>
  /\ \E j, k \in DOMAIN unknown :
       /\ unknown[j].row.key.mappedProvider = Undefined
       /\ unknown[j].row.key.mappedModel = <<"unknown-custom-model-v2">>
       /\ Defined(unknown[k].row.key.mappedProvider)
       /\ unknown[k].row.key.sourceModelID # unknown[k].row.key.mappedModel
  /\ \E j \in DOMAIN unknown : unknown[j].row.messageCount > 1

\* the rate of a field in a catalog entry (USD per 1M tokens), the omitted
\* cache rates taken from input and the omitted reasoning rate from output
RateOf(entry, f) ==
  LET given == entry[f]
      fallback == IF f = "reasoning" THEN entry.output ELSE entry.input
  IN  IF given # <<>> THEN given[1] ELSE fallback[1]

RECURSIVE Priced(_, _, _)
Priced(entry, tokens, n) ==
  IF n = 0 THEN 0
  ELSE Priced(entry, tokens, n - 1) + tokens[Fields[n]] * RateOf(entry, Fields[n])

\* C15: when a mapped record is folded, calculateCostUsd is ok exactly when
\* the catalog has an entry for the key; the cost is then the sum over the five
\* fields of tokens times rate (millionths of a USD), with the defaults for
\* the omitted rates, it is not negative, it is 0 for a zero bucket or zero
\* rates, and it is what the step adds to the total cost; without an entry the
\* outcome is the not-found value and the total cost stays
C15_Cost ==
  [][(mode = "stats" /\ run' = run /\ msgIndex' = msgIndex + 1
        /\ Mappable(messages[msgIndex])) =>
       LET msg == messages[msgIndex]
           key == Mapping(msg).key
           tokens == messageBuckets(msg)
           priced == calculateCostUsd(catalog, key.provider, key.model, tokens)
           entry == catalog[<<key.provider, key.model>>]
       IN  IF <<key.provider, key.model>> \in DOMAIN catalog
           THEN /\ priced.ok
                /\ priced.costUsd = Priced(entry, tokens, Len(Fields))
                /\ priced.costUsd >= 0
                /\ TokenCount(tokens) = 0 => priced.costUsd = 0
                /\ (\A j \in DOMAIN Fields : RateOf(entry, Fields[j]) = 0) =>
                     priced.costUsd = 0
                /\ totals'.costUsd = totals.costUsd + priced.costUsd
           ELSE /\ ~priced.ok
                /\ totals'.costUsd = totals.costUsd]_vars

\* three priced rows: one whose entry omits the cache and reasoning rates and
\* whose record has such tokens, one with tokens at zero rates, one with no
\* tokens
C15_Witness ==
  /\ mode = "stats" /\ result # <<>> /\ catalog = CatalogPreviews
  /\ \E a, b, c \in DOMAIN byModel :
       /\ byModel[a].row.key.model = ClaudeOpus45
       /\ byModel[a].row.tokens.cache_read > 0
       /\ byModel[a].row.tokens.cache_write > 0
       /\ byModel[a].row.tokens.reasoning > 0
       /\ byModel[a].row.costUsd = 300
       /\ TokenCount(byModel[b].row.tokens) > 0 /\ byModel[b].row.costUsd = 0
       /\ TokenCount(byModel[c].row.tokens) = 0 /\ byModel[c].row.costUsd = 0

\* the model id is a non-empty string
IsModelId(id) == id \notin {Undefined, NotAString, <<>>}

\* the priced records among the first n whose pricing key is key
RECURSIVE SumOfKey(_, _, _)
SumOfKey(key, n, f) ==
  IF n = 0 THEN 0
  ELSE SumOfKey(key, n - 1, f)
       + (IF CostComputable(messages[n]) /\ Mapping(messages[n]).key = key
          THEN messageBuckets(messages[n])[f] ELSE 0)

RowsOfKey(key) == {r \in DOMAIN byModel : byModel[r].row.key = key}

\* three spellings of one model: with the "-thinking" suffix, plain, and with
\* the routing prefix, the dotted version and other letter case
SpellingsOfOpus ==
  {<<"claude", "-opus", "-4-5", "-thinking">>, ClaudeOpus45,
   <<"Antigravity-", "Claude", "-opus", "-4.5", "-Thinking">>}

\* C16: records whose model ids normalize to the same id get the same pricing
\* key and the same cost for the same bucket, and are added up in one byModel
\* row; the spellings of claude-opus-4-5 all map to (anthropic,
\* claude-opus-4-5), and the records claude-opus-4-5-thinking (1000, 500) and
\* claude-opus-4-5 (200, 100) give the one row with input 1200 and output 600
C16_SameKeyOneRow ==
  (mode = "stats" /\ run > 0) =>
    /\ \A i, j \in 1..Folded :
         LET a == messages[i]
             b == messages[j]
         IN  (/\ IsModelId(a.modelID) /\ IsModelId(b.modelID)
              /\ normalizeModelId(a.modelID) = normalizeModelId(b.modelID)) =>
               /\ Mappable(a) = Mappable(b)
               /\ Mapping(a).key = Mapping(b).key
               /\ calculateCostUsd(catalog, Mapping(a).key.provider,
                                   Mapping(a).key.model, messageBuckets(a))
                    = calculateCostUsd(catalog, Mapping(b).key.provider,
                                       Mapping(b).key.model, messageBuckets(a))
               /\ CostComputable(a) => Cardinality(RowsOfKey(Mapping(a).key)) = 1
    /\ \A r \in DOMAIN byModel :
         /\ RowsOfKey(byModel[r].row.key) = {r}
         /\ \A f \in DOMAIN Fields :
              byModel[r].row.tokens[Fields[f]]
                = SumOfKey(byModel[r].row.key, Folded, Fields[f])
    /\ \A i \in 1..Folded :
         messages[i].modelID \in SpellingsOfOpus =>
           /\ Mappable(messages[i])
           /\ Mapping(messages[i]).key
                = [provider |-> Str("anthropic"), model |-> ClaudeOpus45]
    /\ (/\ result # <<>>
        /\ messages = <<MessageRoster[1], MessageRoster[2]>>
        /\ catalog # EmptyTokens) =>
         /\ Len(result[1].byModel) = 1
         /\ result[1].byModel[1].key
              = [provider |-> Str("anthropic"), model |-> ClaudeOpus45]
         /\ result[1].byModel[1].tokens.input = 1200
         /\ result[1].byModel[1].tokens.output = 600
         /\ result[1].byModel[1].messageCount = 2

\* the two records of the example and the prefixed, dotted, capitalised
\* spelling were folded into one row
C16_Witness ==
  /\ mode = "stats" /\ result # <<>>
  /\ \A s \in SpellingsOfOpus : \E i \in DOMAIN messages : messages[i].modelID = s
  /\ Len(result[1].byModel) = 1
  /\ result[1].byModel[1].messageCount = 3
  /\ result[1].byModel[1].tokens.input = 1210

\* the alternate spellings of mapToOfficialPricingKey
Alternates ==
  {<<KimiK2, KimiK2Thinking>>, <<Gemini3Pro, Gemini3ProPreview>>,
   <<Gemini3Flash, Gemini3FlashPreview>>}

Primary(msg) ==
  [provider |-> inferOfficialProviderFromModelId(normalizeModelId(msg.modelID)),
   model |-> normalizeModelId(msg.modelID)]
InCatalog(provider, model) == <<provider, model>> \in DOMAIN catalog

\* C17: the pricing key of a mapped record is the inferred provider with the
\* normalized model id, or with one of its alternate spellings; the alternate
\* is returned only if the catalog lacks the primary name and holds the
\* alternate, and a primary name that the catalog holds is always the key
C17_PrimaryFirst ==
  (mode = "stats" /\ run > 0) =>
    \A i \in 1..Folded :
      Mappable(messages[i]) =>
        LET key == Mapping(messages[i]).key
            primary == Primary(messages[i])
        IN  /\ key.provider = primary.provider
            /\ key.model # primary.model =>
                 /\ <<primary.model, key.model>> \in Alternates
                 /\ ~InCatalog(primary.provider, primary.model)
                 /\ InCatalog(primary.provider, key.model)
            /\ InCatalog(primary.provider, primary.model) => key = primary

\* an id that a prefix rule and another substring rule match, and one that no
\* rule matches
PrefixBeatsSubstring == <<"glm", "-x-", "claude">>
NoHeuristic == <<"unknown-custom-model-v2">>

\* C18: a record whose model id is absent, empty or not a string gets an
\* unknown result whose key has the source ids and neither mappedProvider nor
\* mappedModel; a record whose normalized id matches no heuristic gets an
\* unknown result with the normalized id as mappedModel and mappedProvider
\* undefined; every other record is mapped, to the provider of the first
\* matching prefix rule and only without one to that of a substring rule
C18_UnknownResults ==
  (mode = "stats" /\ run > 0) =>
    \A i \in 1..Folded :
      LET msg == messages[i]
          m == Mapping(msg)
          lower == ToLowerCase(normalizeModelId(msg.modelID))
          prefixes == {"claude", "gpt", "o", "gemini", "kimi", "glm"}
          words == {"claude", "gemini", "gpt", "kimi", "glm"}
          ProviderOf(w) ==
            CASE w = "claude" -> Str("anthropic")
              [] w \in {"gpt", "o"} -> Str("openai")
              [] w = "gemini" -> Str("google")
              [] w = "kimi" -> Str("moonshotai")
              [] w = "glm" -> Str("zai")
      IN  IF ~IsModelId(msg.modelID)
          THEN /\ ~m.ok
               /\ m.unknown.sourceProviderID = OrUnknown(msg.providerID)
               /\ m.unknown.sourceModelID = OrUnknown(msg.modelID)
               /\ m.unknown.mappedProvider = Absent
               /\ m.unknown.mappedModel = Absent
          ELSE IF \E w \in prefixes : StartsWith(lower, w)
          THEN /\ m.ok
               /\ \E w \in prefixes : StartsWith(lower, w) /\ m.key.provider = ProviderOf(w)
          ELSE IF \E w \in words : Includes(lower, w)
          THEN /\ m.ok
               /\ \E w \in words : Includes(lower, w) /\ m.key.provider = ProviderOf(w)
          ELSE /\ ~m.ok
               /\ m.unknown.sourceModelID = msg.modelID
               /\ m.unknown.mappedProvider = Undefined
               /\ m.unknown.mappedModel = normalizeModelId(msg.modelID)

\* the result lists an unknown row for "unknown-custom-model-v2", with
\* mappedProvider undefined and the id as mappedModel, and one for a record
\* without a usable model id, with neither
C18_Witness ==
  /\ mode = "stats" /\ result # <<>>
  /\ \E a, b \in DOMAIN result[1].unknown :
       /\ result[1].unknown[a].key.sourceModelID = NoHeuristic
       /\ result[1].unknown[a].key.mappedProvider = Undefined
       /\ result[1].unknown[a].key.mappedModel = NoHeuristic
       /\ result[1].unknown[b].key.sourceModelID \in {Str("unknown"), NotAString, <<>>}
       /\ result[1].unknown[b].key.mappedProvider = Absent
       /\ result[1].unknown[b].key.mappedModel = Absent
  /\ \E i \in DOMAIN messages :
       /\ messages[i].modelID = PrefixBeatsSubstring
       /\ Mapping(messages[i]).key.provider = Str("zai")

NonIncreasing(measures) ==
  \A j \in 1..(Len(measures) - 1) : measures[j] >= measures[j + 1]
Costs(rows) == [j \in DOMAIN rows |-> rows[j].costUsd]
TokenCounts(rows) == [j \in DOMAIN rows |-> TokenCount(rows[j].tokens)]
\* list holds the rows of the map, each once
ListsRowsOf(list, map) ==
  /\ Len(list) = Len(map)
  /\ \A j \in DOMAIN map : \E k \in DOMAIN list : list[k] = map[j].row

\* C19: in a result, byModel, bySession, bySourceProvider and bySourceModel
\* hold the rows of their maps in non-increasing order of costUsd, and unknown
\* holds its rows in non-increasing order of the sum of the five token fields
C19_Sorted ==
  (mode = "stats" /\ result # <<>>) =>
    /\ ListsRowsOf(result[1].byModel, byModel)
    /\ ListsRowsOf(result[1].bySession, bySession)
    /\ ListsRowsOf(result[1].bySourceProvider, bySourceProvider)
    /\ ListsRowsOf(result[1].bySourceModel, bySourceModel)
    /\ ListsRowsOf(result[1].unknown, unknown)
    /\ NonIncreasing(Costs(result[1].byModel))
    /\ NonIncreasing(Costs(result[1].bySession))
    /\ NonIncreasing(Costs(result[1].bySourceProvider))
    /\ NonIncreasing(Costs(result[1].bySourceModel))
    /\ NonIncreasing(TokenCounts(result[1].unknown))

\* a result whose byModel and bySession lists are not in the order in which
\* the rows were created, and whose unknown list is not either
C19_Witness ==
  /\ mode = "stats" /\ result # <<>>
  /\ result[1].byModel # Values(byModel)
  /\ result[1].bySession # Values(bySession)
  /\ Len(result[1].byModel) = 2
  /\ Costs(result[1].byModel)[1] > Costs(result[1].byModel)[2]

\* a result whose unknown list is not in the order in which the rows were
\* created
C19_WitnessUnknown ==
  /\ mode = "stats" /\ result # <<>>
  /\ result[1].unknown # Values(unknown)
  /\ Len(result[1].unknown) = MaxRecords

\* the unknown key under which a record without a cost is counted
UnknownKeyOf(msg) ==
  IF ~Mappable(msg) THEN Mapping(msg).unknown
  ELSE [sourceProviderID |-> OrUnknown(msg.providerID),
        sourceModelID |-> OrUnknown(msg.modelID),
        mappedProvider |-> Mapping(msg).key.provider,
        mappedModel |-> Mapping(msg).key.model]

\* the first record that is counted in the row
FirstOf(Counts(_)) == Least({i \in DOMAIN messages : Counts(messages[i])})

\* rows of equal measure are in the order of the first records counted in them
TiesInOrder(measures, firsts) ==
  \A j, k \in DOMAIN measures :
    (j < k /\ measures[j] = measures[k]) => firsts[j] < firsts[k]

FirstsByModel(rows) ==
  [j \in DOMAIN rows |->
     LET InRow(m) == CostComputable(m) /\ Mapping(m).key = rows[j].key
     IN  FirstOf(InRow)]
FirstsBySession(rows) ==
  [j \in DOMAIN rows |->
     LET InRow(m) == CostComputable(m) /\ m.sessionID = rows[j].sessionID
     IN  FirstOf(InRow)]
FirstsBySourceProvider(rows) ==
  [j \in DOMAIN rows |->
     LET InRow(m) == CostComputable(m) /\ OrUnknown(m.providerID) = rows[j].providerID
     IN  FirstOf(InRow)]
FirstsBySourceModel(rows) ==
  [j \in DOMAIN rows |->
     LET InRow(m) == /\ CostComputable(m)
                     /\ OrUnknown(m.providerID) = rows[j].sourceProviderID
                     /\ OrUnknown(m.modelID) = rows[j].sourceModelID
     IN  FirstOf(InRow)]
FirstsUnknown(rows) ==
  [j \in DOMAIN rows |->
     LET InRow(m) == ~CostComputable(m) /\ UnknownKeyOf(m) = rows[j].key
     IN  FirstOf(InRow)]

\* C20: the result of the second aggregation of the same records, with the
\* same catalog and session index, equals the result of the first: totals,
\* rows and row order; and in every result, rows of equal cost (of equal token
\* count in the unknown list) are in the order in which their keys first occur
\* in the records
C20_Idempotent ==
  (mode = "stats" /\ result # <<>>) =>
    /\ run = 2 => result = firstResult
    /\ run = 1 => firstResult = result
    /\ TiesInOrder(Costs(result[1].byModel), FirstsByModel(result[1].byModel))
    /\ TiesInOrder(Costs(result[1].bySession), FirstsBySession(result[1].bySession))
    /\ TiesInOrder(Costs(result[1].bySourceProvider),
                   FirstsBySourceProvider(result[1].bySourceProvider))
    /\ TiesInOrder(Costs(result[1].bySourceModel),
                   FirstsBySourceModel(result[1].bySourceModel))
    /\ TiesInOrder(TokenCounts(result[1].unknown), FirstsUnknown(result[1].unknown))

\* the second aggregation has returned; its byModel list has two rows of equal
\* cost behind a dearer row that was created last
C20_Witness ==
  /\ mode = "stats" /\ run = 2 /\ result # <<>>
  /\ Len(result[1].byModel) = MaxRecords
  /\ Costs(result[1].byModel)[2] = Costs(result[1].byModel)[3]
  /\ Costs(result[1].byModel)[1] > Costs(result[1].byModel)[2]
  /\ result[1].byModel[1] = byModel[MaxRecords].row

\* sums over the rows of a map
RECURSIVE RowTokens(_, _, _)
RowTokens(map, n, f) ==
  IF n = 0 THEN 0 ELSE RowTokens(map, n - 1, f) + map[n].row.tokens[f]
RECURSIVE RowCosts(_, _)
RowCosts(map, n) == IF n = 0 THEN 0 ELSE RowCosts(map, n - 1) + map[n].row.costUsd
RECURSIVE PricedCount(_)
PricedCount(n) ==
  IF n = 0 THEN 0
  ELSE PricedCount(n - 1) + (IF CostComputable(messages[n]) THEN 1 ELSE 0)

\* the rows of the priced map add up to the priced totals
AddsUp(map) ==
  /\ \A j \in DOMAIN Fields :
       RowTokens(map, Len(map), Fields[j]) = totals.priced[Fields[j]]
  /\ RowCosts(map, Len(map)) = totals.costUsd
  /\ CountSum(map, Len(map)) = PricedCount(Folded)

\* every row of before is still there in after, at its place, not decreased
Grows(before, after) ==
  /\ Len(after) >= Len(before)
  /\ \A j \in DOMAIN before :
       /\ after[j].k = before[j].k
       /\ after[j].row.messageCount >= before[j].row.messageCount
       /\ \A f \in DOMAIN Fields :
            after[j].row.tokens[Fields[f]] >= before[j].row.tokens[Fields[f]]

C29_RowsAddUp ==
  (mode = "stats" /\ run > 0) =>
    /\ AddsUp(byModel) /\ AddsUp(bySession)
    /\ AddsUp(bySourceProvider) /\ AddsUp(bySourceModel)
    /\ \A j \in DOMAIN Fields :
         RowTokens(unknown, Len(unknown), Fields[j]) = totals.unknown[Fields[j]]
    /\ CountSum(byModel, Len(byModel)) + CountSum(unknown, Len(unknown)) = Folded
    /\ result # <<>> =>
         CountSum(byModel, Len(byModel)) + CountSum(unknown, Len(unknown))
           = result[1].totals.messageCount

C29_RowsGrow ==
  (mode = "stats" /\ run' = run) =>
    /\ Grows(byModel, byModel') /\ Grows(bySession, bySession')
    /\ Grows(bySourceProvider, bySourceProvider')
    /\ Grows(bySourceModel, bySourceModel')
    /\ Grows(unknown, unknown')
    /\ \A j \in DOMAIN byModel : byModel'[j].row.costUsd >= byModel[j].row.costUsd

\* C29: while and after the records are folded, the rows of each of byModel,
\* bySession, bySourceProvider and bySourceModel add up to totals.priced in
\* every token field, to totals.costUsd in cost and to the number of priced
\* records in messageCount; the unknown rows add up to totals.unknown; priced
\* and unknown message counts add up to the number of records; and no step of
\* the fold removes a row or decreases one
C29_Breakdowns == [](C29_RowsAddUp) /\ [][C29_RowsGrow]_vars

\* a result with a priced row of two records, two session rows and an unknown
\* row
C29_Witness ==
  /\ mode = "stats" /\ result # <<>>
  /\ \E j \in DOMAIN byModel : byModel[j].row.messageCount = 2
  /\ Len(bySession) = 2
  /\ Len(bySourceProvider) = 2
  /\ Len(unknown) = 1
  /\ totals.costUsd > 0

\* C22: at no time is more than one writeFile of the cache file in flight, and
\* when every set and clear that was called has returned without an error the
\* file holds the text of the in-memory cache
C22_WritesSerialized ==
  mode = "cache" =>
    /\ Cardinality(DOMAIN writesInFlight) <= 1
    /\ (/\ \A p \in DOMAIN proc : ~Busy(p)
        /\ \E p \in DOMAIN proc : proc[p].op \in {"set", "clear"}
        /\ \A p \in DOMAIN proc : proc[p].called => proc[p].outcome = "ok"
        /\ memCache # Null) =>
         file = Stringify(objs[memCache])

\* ------------------------------------------- claims on the workers' claims
\* workers that hold an account: they took its index and their task has not
\* settled
Holding(i) == {p \in InFlight : proc[p].at # "idle" /\ proc[p].idx = i}

\* every worker has returned or has been ended by an exception
Quiescent ==
  proc # <<>> /\ \A p \in DOMAIN proc : proc[p].at \in {"exit", "rejected"}

\* the account's task has begun: it holds a worker, or has left a result or a
\* rejection
Claimed(i) == i < nextIndex

\* C24: an index is held by at most one worker; an account that was not
\* claimed has no worker, no event and no result, and a claimed one has a
\* worker or an outcome but not both; its task asks the cache at most once for
\* a token; slot i of the results names account i; and when every worker has
\* stopped, every account has been claimed and has its result
C24_ExactlyOnce ==
  (mode \in {"query", "refreshAll"} /\ proc # <<>>) =>
    /\ \A i \in DOMAIN accounts :
         /\ Cardinality(Holding(i)) <= 1
         /\ ~Claimed(i) => (Holding(i) = {} /\ ~results[i].done /\ log[i] = <<>>)
         /\ results[i].done => Holding(i) = {}
         /\ Count(log[i], "get") <= 1
         /\ results[i].done =>
              results[i].accountEmail = TaskEmail(Account(accounts[i]))
    /\ Quiescent => \A i \in DOMAIN accounts : Claimed(i) /\ results[i].done

\* ------------------------------------------------- claims on the cache's frame
\* the entries in memory; before the load, those the load will bring
MemTokens == IF memCache = Null THEN loadFromDisk(file).tokens
             ELSE objs[memCache].tokens

\* worker p is in a set that follows a 200 answer of the token endpoint: the
\* last event of its account is that refresh, with the token the entry holds
SetAfterRefresh(p) ==
  /\ proc[p].op = "set"
  /\ proc[p].at \in {"tok_set", "retry_set"}
  /\ LET evs == log[proc[p].idx]
     IN  /\ evs # <<>>
         /\ evs[Len(evs)].e = "refreshed"
         /\ evs[Len(evs)].v = proc[p].entry.accessToken
         /\ \E i \in DOMAIN AccessTokens, j \in 1..4 :
              AccessTokens[i][j] = proc[p].entry.accessToken

\* old with entry under key, every other entry as it was
WithEntry(old, key, entry) ==
  [k \in DOMAIN old \cup {key} |-> IF k = key THEN entry ELSE old[k]]

\* the events the step adds to the account's log
NewEvents(i) == SubSeq(log'[i], Len(log[i]) + 1, Len(log'[i]))

\* C25: in the orchestrator, a step changes the entries in memory only by
\* putting the entry of a set that follows a successful refresh, all other
\* entries staying; the file changes only when the write of such a set
\* settles; and a step in which a refresh fails, a cached token is found, a
\* quota request is sent or a quota answer arrives changes neither
C25_OnlyRefreshWrites ==
  [][(mode \in {"query", "refreshAll"} /\ proc # <<>>) =>
       /\ MemTokens' # MemTokens =>
            \E p \in DOMAIN proc :
              /\ SetAfterRefresh(p) /\ proc[p].cpc = "ensure"
              /\ MemTokens' = WithEntry(MemTokens, proc[p].key, proc[p].entry)
       /\ file' # file =>
            \E p \in DOMAIN proc : SetAfterRefresh(p) /\ proc[p].cpc = "write"
       /\ \A i \in DOMAIN log :
            (\E j \in DOMAIN NewEvents(i) :
               \/ NewEvents(i)[j].e \in {"get", "quota", "reply", "refresh"}
               \/ /\ NewEvents(i)[j].e = "refreshed"
                  /\ NewEvents(i)[j].v \in {"timeout", "network", "invalid_grant",
                                            "described", "undescribed", "nojson"})
            => (MemTokens' = MemTokens
                /\ (file' = file
                    \/ \E j \in DOMAIN NewEvents(i) : NewEvents(i)[j].e = "set"))]_vars

\* a run in which a refresh failed, a cached token was used and a quota request
\* failed, and the cache still holds what the file held at the start
C25_Witness ==
  /\ mode = "query" /\ final.state = "returned"
  /\ Len(accounts) = 2
  /\ \E i, j \in DOMAIN log :
       /\ \E k \in DOMAIN log[i] : log[i][k] = Ev("refreshed", "invalid_grant")
       /\ \E k \in DOMAIN log[j] : log[j][k] = Ev("get", "fresh")
       /\ \E k \in DOMAIN log[j] : log[j][k] = Ev("reply", "500")
  /\ MemTokens = StoredTokens.tokens
  /\ file = StoredTokens

\* ------------------------------------------------ claims on the refresh's order
\* the lifetimes the token endpoint grants, in seconds
GrantedLifetimes == {0, 3600}
LifetimeMs(seconds) == IF seconds < 1 THEN 1000 ELSE seconds * 1000

IsAccessToken(v) == \E i \in DOMAIN AccessTokens, j \in 1..4 : AccessTokens[i][j] = v

\* the state part: in the log of an account, a quota request with a token that
\* a refresh has just delivered comes right after the successful return of the
\* set, which comes right after the refresh; and a refresh-all task that
\* succeeded after a refresh ended with the successful return of the set
C23_SetBeforeUse ==
  mode \in {"query", "refreshAll"} =>
    \A i \in DOMAIN log :
      /\ \A k \in DOMAIN log[i] :
           (/\ log[i][k].e = "quota"
            /\ \E r \in 1..(k - 1) : log[i][r] = Ev("refreshed", log[i][k].v)) =>
             /\ k >= 3
             /\ log[i][k - 1] = Ev("set", "ok")
             /\ log[i][k - 2] = Ev("refreshed", log[i][k].v)
      /\ (/\ mode = "refreshAll" /\ results[i].done /\ results[i].success
          /\ \E r \in DOMAIN log[i] : log[i][r].e = "refreshed") =>
           /\ log[i][Len(log[i])] = Ev("set", "ok")
           /\ log[i][Len(log[i]) - 1].e = "refreshed"
           /\ IsAccessToken(log[i][Len(log[i]) - 1].v)

\* the step part: the entry a refresh builds expires a granted lifetime (at
\* least one second) after the current time and names the account's project
\* and email; and when the set returns and the token is handed on, the entry
\* is in memory under the account's key and the set's write is not in flight
C23_SetSteps ==
  (mode \in {"query", "refreshAll"} /\ proc # <<>> /\ proc' # <<>>
     /\ DOMAIN proc' = DOMAIN proc) =>
    \A p \in DOMAIN proc :
      LET account == Account(accounts[proc'[p].idx])
      IN  /\ (proc[p].at \in {"tok_refresh", "retry_refresh"}
              /\ proc'[p].at \in {"tok_set", "retry_set"}) =>
               /\ \E e \in GrantedLifetimes :
                    proc'[p].entry.expiresAt = now' + LifetimeMs(e)
               /\ proc'[p].entry.projectId = getProjectId(account)
               /\ proc'[p].entry.email = TaskEmail(account)
               /\ proc'[p].key = TaskKey(account)
          /\ (proc[p].at \in {"tok_set", "retry_set"}
              /\ (proc'[p].at \in {"quota1", "quota2"}
                  \/ (proc'[p].at = "ready" /\ results'[proc[p].idx].success))) =>
               /\ proc[p].cpc = "write"
               /\ p \notin DOMAIN writesInFlight'
               /\ proc[p].key \in DOMAIN MemTokens'
               /\ MemTokens'[proc[p].key] = proc[p].entry
               /\ proc'[p].at \in {"quota1", "quota2"} =>
                    proc'[p].tok = proc[p].entry.accessToken

\* C23: after a successful refresh, on the normal path and on the auth-retry
\* path, the entry (expiry = time of the set + max(1, expiresIn) * 1000, the
\* account's project id and email) is in memory and the set's write has
\* completed before the token is returned and before a quota request with it
\* is sent
C23_PersistBeforeUse == [](C23_SetBeforeUse) /\ [][C23_SetSteps]_vars

\* the auth-retry path: a second quota request went out with the token of the
\* retry's refresh, after the set of its entry returned
C23_Witness ==
  /\ mode = "query"
  /\ \E p \in DOMAIN proc :
       /\ proc[p].at = "quota2"
       /\ LET evs == log[proc[p].idx]
          IN  /\ Len(evs) >= 3
              /\ evs[Len(evs)] = Ev("quota", proc[p].tok)
              /\ evs[Len(evs) - 1] = Ev("set", "ok")
              /\ evs[Len(evs) - 2] = Ev("refreshed", proc[p].tok)
       /\ MemTokens[proc[p].key].accessToken = proc[p].tok
       /\ MemTokens[proc[p].key].expiresAt = now + 1000
       /\ file.kind = "json" /\ proc[p].key \in DOMAIN file.tokens

\* --------------------------------------------------- termination of a run
\* Scheduling: the event loop runs every continuation that is ready, every
\* request is answered or timed out by fetchWithTimeout, and every file
\* operation settles
Fairness ==
  /\ WF_vars(Begin)
  /\ WF_vars(LoadSettles)
  /\ \A p \in 1..MaxAccounts :
       /\ WF_vars(WorkerLoop(p))
       /\ WF_vars(\E reply \in RefreshReplies : RefreshResponds(p, reply))
       /\ WF_vars(\E reply \in QuotaReplies : QuotaResponds(p, reply))
       /\ WF_vars(p \in DOMAIN proc /\ GetResumes(p))
       /\ WF_vars(p \in DOMAIN proc /\ SetResumes(p))
       /\ WF_vars(p \in DOMAIN proc /\ \E ok \in BOOLEAN : MkdirSettles(p, ok))
       /\ WF_vars(/\ p \in DOMAIN proc
                  /\ \E ok \in BOOLEAN, torn \in BOOLEAN : WriteSettles(p, ok, torn))

SpecLive == Spec /\ Fairness

\* the entry point has returned, every worker has exited and every account
\* has its outcome
AllDone ==
  /\ final.state = "returned"
  /\ proc # <<>> /\ \A p \in DOMAIN proc : proc[p].at = "exit"
  /\ \A i \in DOMAIN results : results[i].done

\* C30: every run of queryGoogleQuota and of refreshGoogleTokensForAllAccounts
\* eventually returns, with every worker exited and every account's outcome
\* in place
C30_Terminates == <>AllDone

\* ------------------------------------------ claims on the two entry points' key
\* the key's last part is the digest of the account's refresh token and
\* project id: the entries the cache holds for the account
EntriesOf(account, tokens) ==
  {k \in DOMAIN tokens :
     k[Len(k)] = Sha256Hex16(account.refreshToken, getProjectId(account))}

\* the state part: in the query that follows a refresh-all run, the key a
\* worker looks up is the key of every entry the cache holds for its account
C28_KeysAgree ==
  mode = "query" =>
    \A p \in DOMAIN proc :
      proc[p].at = "tok_get" =>
        \A k \in EntriesOf(Account(accounts[proc[p].idx]), MemTokens) :
          k = proc[p].key

\* the step part: the query's lookup misses only if the cache holds no entry
\* for the account that is valid beyond the skew margin
C28_WarmHits ==
  (mode = "query" /\ proc # <<>> /\ DOMAIN proc' = DOMAIN proc) =>
    \A p \in DOMAIN proc :
      (proc[p].at = "tok_get" /\ proc'[p].at = "tok_refresh") =>
        \A k \in EntriesOf(Account(accounts[proc[p].idx]), MemTokens) :
          MemTokens[k].expiresAt <= now' + DEFAULT_SKEW_MS

\* C28: the key under which refreshGoogleTokensForAllAccounts stores an
\* account's token is the key queryGoogleQuota looks up, for accounts with and
\* without an email, so that after a refresh-all run the quota query finds
\* the stored token while it is valid beyond the skew margin
C28_SameKey == [](C28_KeysAgree) /\ [][C28_WarmHits]_vars

\* ------------------------------------------------- claims on the token reports
\* the messages of the storage a report may count: the readable files of the
\* readable session directories that hold an assistant message with a numeric
\* creation time
Countable ==
  {storage.files[j].msg[1] :
     j \in {i \in DOMAIN storage.files :
              /\ storage.dirs[storage.files[i].dir] = "readable"
              /\ storage.files[i].msg # <<>>
              /\ storage.files[i].msg[1].role = "assistant"
              /\ storage.files[i].msg[1].created # <<>>}}
Read == {messages[j] : j \in DOMAIN messages}
BetweenServed ==
  /\ mode = "stats" /\ storage # <<>> /\ request # <<>> /\ thrown = <<>>
  /\ command[1].kind = "between"

\* C26: the date-range report counts a record if and only if its creation
\* time t satisfies startOfLocalDay(START) <= t < startOfLocalDay(END + 1 day);
\* a record created exactly at the start of the day after END is not counted.
C26_ExclusiveEnd ==
  BetweenServed =>
    \A msg \in Countable :
      msg \in Read <=>
        /\ startOfLocalDayMs(command[1].startYmd) <= msg.created[1]
        /\ msg.created[1] < startOfLocalDayMs(command[1].endYmd + 1)

\* what the code does instead: the start of the day after END is counted too
C26_InclusiveEnd ==
  BetweenServed =>
    \A msg \in Countable :
      msg \in Read <=>
        /\ startOfLocalDayMs(command[1].startYmd) <= msg.created[1]
        /\ msg.created[1] <= startOfLocalDayMs(command[1].endYmd + 1)
C26_Witness ==
  /\ BetweenServed /\ result # <<>>
  /\ \E msg \in Read : msg.created[1] = startOfLocalDayMs(command[1].endYmd + 1)

\* ------------------------------------------------ claims on the session filter
FilteredCall == mode = "stats" /\ storage # <<>> /\ request # <<>>
                /\ HasSessionFilter(request[1])
Filter == request[1].sessionID[1]
\* the session has stored data: its id is well formed and its directory can be listed
Stored(sid) ==
  StartsWithSes(sid) /\ sid \in DOMAIN storage.dirs /\ storage.dirs[sid] = "readable"
\* the session's countable records inside the window of the request
InWindow ==
  {msg \in Countable :
     /\ msg.sessionID = Filter
     /\ request[1].sinceMs # <<>> => request[1].sinceMs[1] <= msg.created[1]
     /\ request[1].untilMs # <<>> => msg.created[1] <= request[1].untilMs[1]}
ZeroUsage ==
  [totals |-> [priced |-> emptyBuckets, unknown |-> emptyBuckets, costUsd |-> 0,
               messageCount |-> 0, sessionCount |-> 0],
   bySourceProvider |-> <<>>, bySourceModel |-> <<>>, byModel |-> <<>>,
   bySession |-> <<>>, unknown |-> <<>>]

\* C21: with a session filter, a session without stored data (or a malformed
\* id) makes aggregateUsage fail with SessionNotFoundError and no result is
\* returned; a session that exists but has no records inside the window gives
\* a result with all-zero totals and empty breakdowns.
C21_NotFoundOrEmpty ==
  FilteredCall =>
    IF ~Stored(Filter)
    THEN thrown = <<"SessionNotFoundError">> /\ run = 0 /\ result = <<>>
    ELSE /\ thrown = <<>>
         /\ run = 1
         /\ (result # <<>> /\ InWindow = {}) => result[1] = ZeroUsage
         /\ (result # <<>> /\ InWindow # {}) => result[1] # ZeroUsage
C21_Witness ==
  /\ FilteredCall /\ Stored(Filter) /\ result # <<>> /\ result[1] = ZeroUsage
  /\ \E msg \in Countable : msg.sessionID = Filter
  /\ request[1].untilMs # <<>>
C21_WitnessNotFound ==
  /\ FilteredCall /\ thrown = <<"SessionNotFoundError">>
  /\ Filter = "ses_gone" /\ DOMAIN storage.dirs # {}

\* -------------------------------------------------- claims on the /quota cache
\* the fetches that produced a message, and the invocations made after fetch
\* k settled
Produced == {k \in DOMAIN fetches : fetches[k].settled /\ fetches[k].msg # <<>>}
After(k) == {i \in DOMAIN invocations : invocations[i].after >= k}
Expiry(k) == fetches[k].end + minIntervalMs

\* every invocation before t + minIntervalMs returns the cached message
\* without fetching
C27_HitsBeforeExpiry ==
  \A k \in Produced : \A i \in After(k) :
    invocations[i].started < Expiry(k) =>
      /\ invocations[i].fetch = 0
      /\ invocations[i].msg = fetches[k].msg

\* the first invocation at or after t + minIntervalMs performs a new fetch
C27_FetchAtExpiry ==
  \A k \in Produced : \A i \in After(k) :
    (/\ invocations[i].started >= Expiry(k)
     /\ \A j \in After(k) : j < i => invocations[j].started < Expiry(k))
      => invocations[i].began

\* any two provider fetches are at least minIntervalMs apart
C27_FetchesApart ==
  \A k \in DOMAIN fetches : \A l \in DOMAIN fetches :
    k < l => fetches[l].start - fetches[k].start >= minIntervalMs

\* invocations that overlap a fetch in flight share that one fetch
C27_SharedFetch ==
  /\ Cardinality({k \in DOMAIN fetches : ~fetches[k].settled}) <= 1
  /\ \A i \in DOMAIN invocations :
       invocations[i].at = "awaiting" =>
         /\ ~fetches[invocations[i].fetch].settled
         /\ quotaCache[1].inFlight = invocations[i].fetch
  /\ \A i \in DOMAIN invocations :
       (invocations[i].fetch # 0 /\ ~invocations[i].began) =>
         fetches[invocations[i].fetch].start <= invocations[i].started

\* C27: the /quota cache honours minIntervalMs as a time-to-live measured from
\* the fetch: after a fetch that produced a message at time t every invocation
\* before t + minIntervalMs returns that message without fetching, the first
\* invocation at or after t + minIntervalMs fetches anew, any two fetches are
\* at least minIntervalMs apart, and invocations that overlap a fetch in
\* flight share it.
C27_TtlFromFetch ==
  mode = "quota" =>
    /\ C27_HitsBeforeExpiry
    /\ C27_FetchAtExpiry
    /\ C27_FetchesApart
    /\ C27_SharedFetch

\* the two fetches that follow a fetch which produced a message are apart
C27_ApartAfterMessage ==
  \A k \in Produced : \A l \in DOMAIN fetches :
    k < l => fetches[l].start >= Expiry(k)
\* an invocation served from the cache after the time to live of the fetch
\* that rendered its message is over
C27_StaleHit ==
  \E k \in Produced : \E i \in After(k) :
    /\ invocations[i].started >= Expiry(k)
    /\ invocations[i].cached /\ invocations[i].msg = fetches[k].msg

====
